---- MODULE Spec2Model ----
(***************************************************************************)
(* httpfromtcp: the incremental HTTP/1.1 request parser                    *)
(* (internal/request, internal/headers) and the connection server          *)
(* (internal/server).                                                      *)
(*                                                                         *)
(* A byte is a one-character string, a byte slice or Go string a sequence  *)
(* of bytes.  Go's 0-based half-open slices s[lo:hi] are written           *)
(* Slice(s, lo, hi).                                                       *)
(***************************************************************************)
EXTENDS Integers, Sequences, FiniteSets, TLC

VARIABLES
    stream,     \* the bytes the client means to send on the connection
    pos,        \* how many of them the reader has delivered so far
    srcEnd,     \* what the source reported last: "none", EOF, ErrTimeout, ErrTransport
    req,        \* the *Request built by RequestFromReader
    buf,        \* RequestFromReader's read buffer (all len(buf) bytes)
    readTo,     \* number of valid bytes in buf
    pc,         \* RequestFromReader: "parse" (loop top), "read", "returned"
    result,     \* what RequestFromReader returned (or how it ended)
    closed,     \* Server.closed
    wg,         \* Server.wg: the WaitGroup counter
    lnOpen,     \* the listening socket is open
    hasHandler, \* Server.handler # nil
    lpc,        \* Server.listen: "accept", "dispatch", "exited"
    lconn,      \* the connection Accept returned to listen (0: none)
    cpc,        \* Server.Close: "idle", "storeClosed", "closeListener", "wait", "returned"
    wpc,        \* per connection: where its worker goroutine is
    conn,       \* per connection: "none", "queued", "open", "closed"
    deadline,   \* per connection: the read deadline is set
    wire,       \* per connection: the writes the client received, in order
    hlog,       \* per connection: what the handler was called with, per call
    wres,       \* per connection: what RequestFromReader returned to its worker
    crashed,    \* the process died of a panic in a goroutine
    atClose,    \* the connections whose worker was in flight when Close was called
    hdrs,       \* Headers.Parse on its own: the Headers table
    hdata,      \* the data the caller holds for the next call of Headers.Parse
    hlast,      \* the last call of Headers.Parse: its data, table before, returns
    dest,       \* response.Writer on its own: the bytes written to w.dest
    wlast       \* the last call on the Writer: operation, argument, returned error

parserVars == <<stream, pos, srcEnd, req, buf, readTo, pc, result>>
serverVars == <<closed, wg, lnOpen, hasHandler, lpc, lconn, cpc, wpc,
                conn, deadline, wire, hlog, wres, crashed, atClose>>
libVars == <<hdrs, hdata, hlast, dest, wlast>>
vars == <<stream, pos, srcEnd, req, buf, readTo, pc, result,
          closed, wg, lnOpen, hasHandler, lpc, lconn, cpc, wpc,
          conn, deadline, wire, hlog, wres, crashed, atClose,
          hdrs, hdata, hlast, dest, wlast>>

-----------------------------------------------------------------------------
(* Bytes and strings *)

SP == " "
CRLF == <<"\r", "\n">>
NUL == "NUL"    \* the zero byte of a fresh make([]byte, n)

UpperLetters == <<"A","B","C","D","E","F","G","H","I","J","K","L","M",
                  "N","O","P","Q","R","S","T","U","V","W","X","Y","Z">>
LowerLetters == <<"a","b","c","d","e","f","g","h","i","j","k","l","m",
                  "n","o","p","q","r","s","t","u","v","w","x","y","z">>
DigitChars == <<"0","1","2","3","4","5","6","7","8","9">>

Range(s) == {s[i] : i \in DOMAIN s}

IsUpper(ch) == ch \in Range(UpperLetters)
IsLower(ch) == ch \in Range(LowerLetters)
IsDigit(ch) == ch \in Range(DigitChars)
DigitVal(ch) == (CHOOSE i \in DOMAIN DigitChars : DigitChars[i] = ch) - 1

\* unicode.IsSpace on the ASCII range (the model's alphabet has no other bytes)
IsSpace(ch) == ch \in {" ", "\t", "\n", "\r", "\f"}

\* s[lo:hi]
Slice(s, lo, hi) == SubSeq(s, lo + 1, hi)

Min(a, b) == IF a < b THEN a ELSE b

\* bytes.Index(data, "\r\n"): 0-based offset of the first CRLF, or -1
IndexCRLF(data) ==
    LET At(i) == data[i] = "\r" /\ data[i + 1] = "\n"
        Hits == {i \in 1..(Len(data) - 1) : At(i)}
    IN  IF Hits = {} THEN -1
        ELSE (CHOOSE i \in Hits : \A j \in Hits : i <= j) - 1

\* strings.IndexByte(s, c): 0-based offset of the first c, or -1
IndexByte(s, c) ==
    LET Hits == {i \in DOMAIN s : s[i] = c}
    IN  IF Hits = {} THEN -1
        ELSE (CHOOSE i \in Hits : \A j \in Hits : i <= j) - 1

\* strings.HasPrefix
HasPrefix(s, p) == Len(s) >= Len(p) /\ SubSeq(s, 1, Len(p)) = p

\* strings.TrimPrefix
TrimPrefix(s, p) == IF HasPrefix(s, p) THEN Slice(s, Len(p), Len(s)) ELSE s

\* no trimming
TrimSpaceNone(s) == s

\* strings.TrimSpace
TrimSpace(s) ==
    LET Keep == {i \in DOMAIN s : ~IsSpace(s[i])}
    IN  IF Keep = {} THEN <<>>
        ELSE LET lo == CHOOSE i \in Keep : \A j \in Keep : i <= j
                 hi == CHOOSE i \in Keep : \A j \in Keep : i >= j
             IN  SubSeq(s, lo, hi)

\* strings.ToLower (ASCII)
ToLowerByte(ch) ==
    IF IsUpper(ch)
    THEN LowerLetters[CHOOSE i \in DOMAIN UpperLetters : UpperLetters[i] = ch]
    ELSE ch

\* the name kept as it was written
KeepCase(s) == s

ToLower(s) == [i \in DOMAIN s |-> ToLowerByte(s[i])]

\* strings.SplitN(line, " ", 3): the cut at the second separator, at offset
\* j of rest (-1: none), after the first token
SplitRest(first, rest, j) ==
    IF j = -1 THEN <<first, rest>>
    ELSE <<first, Slice(rest, 0, j), Slice(rest, j + 1, Len(rest))>>

\* strings.SplitN(line, " ", 3): the cut at the first separator, at offset i
SplitFirst(line, i) ==
    IF i = -1 THEN <<line>>
    ELSE SplitRest(Slice(line, 0, i), Slice(line, i + 1, Len(line)),
                   IndexByte(Slice(line, i + 1, Len(line)), SP))

\* strings.SplitN(line, " ", 3)
SplitN3(line) == SplitFirst(line, IndexByte(line, SP))

-----------------------------------------------------------------------------
(* strconv.Atoi on a 64-bit platform.  The magnitude is kept as its digit  *)
(* string without leading zeros, so the range check is exact.              *)

RECURSIVE StripZeros(_)
StripZeros(d) == IF d # <<>> /\ d[1] = "0" THEN StripZeros(Tail(d)) ELSE d

\* a < b for two digit strings without leading zeros
DigitsLess(a, b) ==
    \/ Len(a) < Len(b)
    \/ /\ Len(a) = Len(b)
       /\ \E i \in DOMAIN a :
            /\ DigitVal(a[i]) < DigitVal(b[i])
            /\ \A j \in 1..(i - 1) : a[j] = b[j]

\* 1<<63 - 1 and 1<<63
MaxInt64Digits == <<"9","2","2","3","3","7","2","0","3","6","8","5","4","7","7","5","8","0","7">>
MinInt64Digits == <<"9","2","2","3","3","7","2","0","3","6","8","5","4","7","7","5","8","0","8">>
\* runtime maxAlloc = 1<<48 (heapAddrBits = 48): the largest cap make([]byte, 0, cap) takes
MaxAllocDigits == <<"2","8","1","4","7","4","9","7","6","7","1","0","6","5","6">>

RECURSIVE DigitsToNat(_)
DigitsToNat(d) ==
    IF d = <<>> THEN 0
    ELSE 10 * DigitsToNat(SubSeq(d, 1, Len(d) - 1)) + DigitVal(d[Len(d)])

\* the range check of Atoi on the magnitude mag
AtoiRange(neg, mag) ==
    [err |-> IF neg THEN DigitsLess(MinInt64Digits, mag)
             ELSE DigitsLess(MaxInt64Digits, mag),
     neg |-> neg, mag |-> mag]

\* Atoi on the text after the sign
AtoiBody(neg, body) ==
    IF body = <<>> \/ \E i \in DOMAIN body : ~IsDigit(body[i])
    THEN [err |-> TRUE, neg |-> neg, mag |-> <<>>]
    ELSE AtoiRange(neg, StripZeros(body))

\* strconv.Atoi(s): [err, neg, mag]; err is TRUE on a syntax or range error
Atoi(s) ==
    IF Len(s) > 0 /\ s[1] \in {"+", "-"}
    THEN AtoiBody(s[1] = "-", Tail(s))
    ELSE AtoiBody(FALSE, s)

\* comparisons of a length of the model (far below 10^9) with an int value
IntIsZero(v) == v.mag = <<>>
IntIsNegative(v) == v.neg /\ v.mag # <<>>
LenExceeds(n, v) == IntIsNegative(v) \/ (Len(v.mag) <= 9 /\ n > DigitsToNat(v.mag))
LenEquals(n, v) == ~IntIsNegative(v) /\ Len(v.mag) <= 9 /\ n = DigitsToNat(v.mag)

\* make([]byte, 0, cap) panics (makeslice: cap out of range)
MakePanics(v) == IntIsNegative(v) \/ DigitsLess(MaxAllocDigits, v.mag)

-----------------------------------------------------------------------------
(* internal/request: the request line *)

ParserInitialized == 0
requestStateParsingHeaders == 1
requestStateParsingBody == 2
ParserDone == 3

ErrNil == "nil"
ErrEmptyRequest == "empty request"
ErrMalformedRequestLine == "malformed request line"
ErrInvalidMethod == "invalid method in request line"
ErrInvalidTarget == "invalid request target in request line"
ErrUnsupportedVersion == "unsupported HTTP version in request line"
ErrNoColon == "malformed header (no colon)"
ErrKeySpacing == "invalid header key spacing"
ErrKeySpace == "invalid header key contains space"
ErrKeyChar == "invalid character in header key"
ErrContentLength == "invalid Content-Length"
ErrBodyOverrun == "body length exceeds Content-Length"
ErrIncomplete == "incomplete request after EOF: need more data"
ErrTimeout == "i/o timeout"
ErrTransport == "read error"
PanicMakeslice == "panic: runtime error: makeslice: cap out of range"

\* the zero RequestLine
NoRequestLine == [Method |-> <<>>, RequestTarget |-> <<>>, HttpVersion |-> <<>>]

HTTPSlash == <<"H", "T", "T", "P", "/">>
OneDotOne == <<"1", ".", "1">>

\* the method check of requestLineFromString: every rune is in 'A'..'Z'
MethodOK(method) == \A i \in DOMAIN method : IsUpper(method[i])

\* the version check of requestLineFromString
VersionOf(httpVersionToken) ==
    IF HasPrefix(httpVersionToken, HTTPSlash)
    THEN TrimPrefix(httpVersionToken, HTTPSlash)
    ELSE httpVersionToken

\* requestLineFromString after the SplitN: [rl, err]
RequestLineFromParts(parts) ==
    IF Len(parts) # 3
    THEN [rl |-> NoRequestLine, err |-> ErrMalformedRequestLine]
    ELSE IF ~MethodOK(parts[1])
    THEN [rl |-> NoRequestLine, err |-> ErrInvalidMethod]
    ELSE IF ~HasPrefix(parts[2], <<"/">>)
    THEN [rl |-> NoRequestLine, err |-> ErrInvalidTarget]
    ELSE IF VersionOf(parts[3]) # OneDotOne
    THEN [rl |-> NoRequestLine, err |-> ErrUnsupportedVersion]
    ELSE [rl |-> [Method |-> parts[1], RequestTarget |-> parts[2],
                  HttpVersion |-> VersionOf(parts[3])],
          err |-> ErrNil]

\* requestLineFromString(line): [rl, err]
requestLineFromString(line) ==
    IF line = <<>> THEN [rl |-> NoRequestLine, err |-> ErrEmptyRequest]
    ELSE RequestLineFromParts(SplitN3(line))

\* the return of parseRequestLine for the line that ends at offset idx
RequestLineResult(r, idx) == [rl |-> r.rl, consumed |-> idx + 2, err |-> r.err]

\* parseRequestLine with idx the offset of the first CRLF
ParseRequestLineAt(input, idx) ==
    IF Len(input) = 0 \/ idx = -1
    THEN [rl |-> NoRequestLine, consumed |-> 0, err |-> ErrNil]
    ELSE RequestLineResult(requestLineFromString(Slice(input, 0, idx)), idx)

\* parseRequestLine(input): [rl, consumed, err]
parseRequestLine(input) == ParseRequestLineAt(input, IndexCRLF(input))

-----------------------------------------------------------------------------
(* internal/headers: a Headers map is a function from names to values *)

NewHeaders == [k \in {} |-> <<>>]

\* the punctuation of the whitelist; the backquote byte is written Backquote
Backquote == "BACKQUOTE"
TokenPunct == {"!", "#", "$", "%", "&", "'", "*", "+", "-", ".", "^", "_", "|", "~", Backquote}

\* the whitelist loop of Headers.Parse
KeyCharOK(ch) == IsUpper(ch) \/ IsLower(ch) \/ IsDigit(ch) \/ ch \in TokenPunct

\* h[key] = value
MapSet(h, key, value) ==
    [k \in (DOMAIN h) \cup {key} |-> IF k = key THEN value ELSE h[k]]

\* the store without the combination of duplicates
HeaderOverwrite(h, key, value) == MapSet(h, key, value)

\* the store at the end of Headers.Parse: duplicates combine with ", "
HeaderStore(h, key, value) ==
    IF key \in DOMAIN h /\ h[key] # <<>>
    THEN MapSet(h, key, h[key] \o <<",", " ">> \o value)
    ELSE MapSet(h, key, value)

\* Headers.Parse without the whitelist loop
HeaderLineAnyChar(h, line, idx, ci) ==
    IF ci = -1
    THEN [n |-> 0, done |-> FALSE, err |-> ErrNoColon, h |-> h]
    ELSE IF TrimSpace(Slice(line, 0, ci)) # Slice(line, 0, ci)
    THEN [n |-> 0, done |-> FALSE, err |-> ErrKeySpacing, h |-> h]
    ELSE IF SP \in Range(Slice(line, 0, ci))
    THEN [n |-> 0, done |-> FALSE, err |-> ErrKeySpace, h |-> h]
    ELSE [n |-> idx + 2, done |-> FALSE, err |-> ErrNil,
          h |-> HeaderStore(h, ToLower(Slice(line, 0, ci)),
                            TrimSpace(Slice(line, ci + 1, Len(line))))]

\* Headers.Parse on the line (without CRLF) that ends at offset idx, with ci
\* the offset of its first colon
HeaderLine(h, line, idx, ci) ==
    IF ci = -1
    THEN [n |-> 0, done |-> FALSE, err |-> ErrNoColon, h |-> h]
    ELSE IF TrimSpace(Slice(line, 0, ci)) # Slice(line, 0, ci)
    THEN [n |-> 0, done |-> FALSE, err |-> ErrKeySpacing, h |-> h]
    ELSE IF SP \in Range(Slice(line, 0, ci))
    THEN [n |-> 0, done |-> FALSE, err |-> ErrKeySpace, h |-> h]
    ELSE IF \E i \in 1..ci : ~KeyCharOK(line[i])
    THEN [n |-> 0, done |-> FALSE, err |-> ErrKeyChar, h |-> h]
    ELSE [n |-> idx + 2, done |-> FALSE, err |-> ErrNil,
          h |-> HeaderStore(h, ToLower(Slice(line, 0, ci)),
                            TrimSpace(Slice(line, ci + 1, Len(line))))]

\* Headers.Parse taking the blank line together with the line before it
HeadersParseEager(h, data, idx) ==
    IF Len(data) = 0 \/ idx = -1
    THEN [n |-> 0, done |-> FALSE, err |-> ErrNil, h |-> h]
    ELSE IF idx = 0
    THEN [n |-> 2, done |-> TRUE, err |-> ErrNil, h |-> h]
    ELSE IF Len(data) >= idx + 4 /\ Slice(data, idx + 2, idx + 4) = CRLF
    THEN [n |-> idx + 4, done |-> TRUE, err |-> ErrNil,
          h |-> HeaderLine(h, Slice(data, 0, idx), idx, IndexByte(Slice(data, 0, idx), ":")).h]
    ELSE HeaderLine(h, Slice(data, 0, idx), idx, IndexByte(Slice(data, 0, idx), ":"))

\* Headers.Parse with idx the offset of the first CRLF
HeadersParseAt(h, data, idx) ==
    IF Len(data) = 0 \/ idx = -1
    THEN [n |-> 0, done |-> FALSE, err |-> ErrNil, h |-> h]
    ELSE IF idx = 0
    THEN [n |-> 2, done |-> TRUE, err |-> ErrNil, h |-> h]
    ELSE HeaderLine(h, Slice(data, 0, idx), idx, IndexByte(Slice(data, 0, idx), ":"))

\* Headers.Parse(data): [n, done, err, h]
HeadersParse(h, data) == HeadersParseAt(h, data, IndexCRLF(data))

\* Headers.Get(name): the value stored under the lowercase name, "" when absent
HeadersGet(h, name) ==
    IF ToLower(name) \in DOMAIN h THEN h[ToLower(name)] ELSE <<>>

ContentLengthName == <<"C","o","n","t","e","n","t","-","L","e","n","g","t","h">>

-----------------------------------------------------------------------------
(* internal/request: Request.parse *)

\* &Request{state: ParserInitialized}
NewRequest ==
    [state |-> ParserInitialized, RequestLine |-> NoRequestLine,
     Headers |-> NewHeaders, Body |-> <<>>, BodyNil |-> TRUE]

\* case ParserInitialized, p what parseRequestLine returned
OnRequestLine(r, p) ==
    IF p.err # ErrNil THEN [r |-> r, n |-> p.consumed, err |-> p.err]
    ELSE IF p.consumed = 0 THEN [r |-> r, n |-> 0, err |-> ErrNil]
    ELSE [r |-> [r EXCEPT !.RequestLine = p.rl, !.Headers = NewHeaders,
                          !.state = requestStateParsingHeaders],
          n |-> p.consumed, err |-> ErrNil]

\* case ParserInitialized
ParseInitialized(r, data) == OnRequestLine(r, parseRequestLine(data))

\* a blank line that takes the parser from the headers straight to Done
OnHeaderLineToDone(r, p) ==
    IF p.err # ErrNil THEN [r |-> r, n |-> 0, err |-> p.err]
    ELSE IF p.n = 0 /\ ~p.done THEN [r |-> r, n |-> 0, err |-> ErrNil]
    ELSE IF p.done
    THEN [r |-> [r EXCEPT !.state = ParserDone], n |-> p.n, err |-> ErrNil]
    ELSE [r |-> [r EXCEPT !.Headers = p.h], n |-> p.n, err |-> ErrNil]

\* case requestStateParsingHeaders, p what Headers.Parse returned
OnHeaderLine(r, p) ==
    IF p.err # ErrNil THEN [r |-> r, n |-> 0, err |-> p.err]
    ELSE IF p.n = 0 /\ ~p.done THEN [r |-> r, n |-> 0, err |-> ErrNil]
    ELSE IF p.done
    THEN [r |-> [r EXCEPT !.state = requestStateParsingBody],
          n |-> p.n, err |-> ErrNil]
    ELSE [r |-> [r EXCEPT !.Headers = p.h], n |-> p.n, err |-> ErrNil]

\* case requestStateParsingHeaders
ParseHeaders(r, data) == OnHeaderLine(r, HeadersParse(r.Headers, data))

\* a "no body" return that consumes nothing
ParseNoBodyKeep(r, data) ==
    [r |-> [r EXCEPT !.state = ParserDone], n |-> 0, err |-> ErrNil]

\* the two "no body" returns of case requestStateParsingBody
ParseNoBody(r, data) ==
    [r |-> [r EXCEPT !.state = ParserDone], n |-> Len(data), err |-> ErrNil]

\* a CheckBody without the overrun check
CheckBodyNoOverrun(r, n, contentLength) ==
    IF LenEquals(Len(r.Body), contentLength)
    THEN [r |-> [r EXCEPT !.state = ParserDone], n |-> n, err |-> ErrNil]
    ELSE [r |-> r, n |-> n, err |-> ErrNil]

\* the checks of case requestStateParsingBody on the body after the append
CheckBody(r, n, contentLength) ==
    IF LenExceeds(Len(r.Body), contentLength)
    THEN [r |-> r, n |-> 0, err |-> ErrBodyOverrun]
    ELSE IF LenEquals(Len(r.Body), contentLength)
    THEN [r |-> [r EXCEPT !.state = ParserDone], n |-> n, err |-> ErrNil]
    ELSE [r |-> r, n |-> n, err |-> ErrNil]

\* the accumulation of case requestStateParsingBody, contentLength # 0
ParseAccumulate(r, data, contentLength) ==
    IF r.BodyNil /\ MakePanics(contentLength)
    THEN [r |-> r, n |-> 0, err |-> PanicMakeslice]
    ELSE CheckBody([r EXCEPT !.Body = r.Body \o data, !.BodyNil = FALSE],
                   Len(data), contentLength)

\* case requestStateParsingBody after strconv.Atoi(headerVal)
ParseLength(r, data, contentLength) ==
    IF contentLength.err THEN [r |-> r, n |-> 0, err |-> ErrContentLength]
    ELSE IF IntIsZero(contentLength) THEN ParseNoBody(r, data)
    ELSE ParseAccumulate(r, data, contentLength)

\* case requestStateParsingBody after r.Headers.Get("Content-Length")
ParseBodyOf(r, data, headerVal) ==
    IF headerVal = <<>> THEN ParseNoBody(r, data)
    ELSE ParseLength(r, data, Atoi(headerVal))

\* case requestStateParsingBody
ParseBody(r, data) == ParseBodyOf(r, data, HeadersGet(r.Headers, ContentLengthName))

\* a parse whose case ParserDone takes the bytes it is given
ParseDoneConsumes(r, data) ==
    IF r.state = ParserInitialized THEN ParseInitialized(r, data)
    ELSE IF r.state = requestStateParsingHeaders THEN ParseHeaders(r, data)
    ELSE IF r.state = requestStateParsingBody THEN ParseBody(r, data)
    ELSE [r |-> r, n |-> Len(data), err |-> ErrNil]

\* Request.parse(data): [r, n, err], r the request after the call
Parse(r, data) ==
    IF r.state = ParserInitialized THEN ParseInitialized(r, data)
    ELSE IF r.state = requestStateParsingHeaders THEN ParseHeaders(r, data)
    ELSE IF r.state = requestStateParsingBody THEN ParseBody(r, data)
    ELSE [r |-> r, n |-> 0, err |-> ErrNil]

-----------------------------------------------------------------------------
(* internal/request: RequestFromReader.  Its loop is two steps: from the   *)
(* loop head to the Read call (LoopStep), and the Read call with what      *)
(* follows it (AfterRead).  m is the function's local state.               *)

BufInit == 8

EOF == "EOF"

Running == [kind |-> "running"]
Ok(r) == [kind |-> "ok", req |-> r]
Fail(e) == [kind |-> "err", err |-> e]
Panicked == [kind |-> "panic"]

\* how RequestFromReader ends on a non-nil error of parse
ParseFailure(e) == IF e = PanicMakeslice THEN Panicked ELSE Fail(e)

\* make([]byte, n)
MakeBuf(n) == [i \in 1..n |-> NUL]

\* a Compact that moves readTo back but leaves the bytes where they are
CompactInPlace(m, consumed) ==
    IF consumed < m.readTo
    THEN [m EXCEPT !.readTo = m.readTo - consumed]
    ELSE [m EXCEPT !.readTo = 0]

\* the shift of the unconsumed bytes to the front of buf
Compact(m, consumed) ==
    IF consumed < m.readTo
    THEN [m EXCEPT !.buf = [i \in DOMAIN m.buf |->
                              IF i <= m.readTo - consumed
                              THEN m.buf[i + consumed] ELSE m.buf[i]],
                   !.readTo = m.readTo - consumed]
    ELSE [m EXCEPT !.readTo = 0]

\* a loop that goes on to the Read without growing a full buf
GrowNot(m) == m

\* the growth of buf before a Read when it is full
Grow(m) ==
    IF m.readTo = Len(m.buf)
    THEN [m EXCEPT !.buf = [i \in 1..(IF Len(m.buf) * 2 = 0 THEN 8 ELSE Len(m.buf) * 2) |->
                              IF i <= m.readTo THEN m.buf[i] ELSE NUL]]
    ELSE m

\* the loop body after consumed, err := req.parse(buf[:readTo]) returned p
OnParsed(m, p) ==
    IF p.err # ErrNil
    THEN [m EXCEPT !.req = p.r, !.pc = "returned", !.result = ParseFailure(p.err)]
    ELSE IF p.n > 0
    THEN Compact([m EXCEPT !.req = p.r], p.n)
    ELSE Grow([m EXCEPT !.req = p.r, !.pc = "read"])

\* from the loop head to the Read call
LoopStep(m) ==
    IF m.req.state = ParserDone
    THEN [m EXCEPT !.pc = "returned", !.result = Ok(m.req)]
    ELSE OnParsed(m, Parse(m.req, Slice(m.buf, 0, m.readTo)))

\* a Read into buf[0:] instead of buf[readTo:]
FilledAtFront(m, bytes) ==
    [m EXCEPT !.buf = [i \in DOMAIN m.buf |->
                         IF i <= Len(bytes) THEN bytes[i] ELSE m.buf[i]],
              !.readTo = m.readTo + Len(bytes)]

\* n, err := reader.Read(buf[readTo:]); readTo += n
Filled(m, bytes) ==
    [m EXCEPT !.buf = [i \in DOMAIN m.buf |->
                         IF i > m.readTo /\ i <= m.readTo + Len(bytes)
                         THEN bytes[i - m.readTo] ELSE m.buf[i]],
              !.readTo = m.readTo + Len(bytes)]

\* a final attempt that returns the request whatever its state
OnFinalParseAnyState(m, p) ==
    IF p.err # ErrNil
    THEN [m EXCEPT !.req = p.r, !.pc = "returned", !.result = ParseFailure(p.err)]
    ELSE [m EXCEPT !.req = p.r, !.pc = "returned", !.result = Ok(p.r)]

\* the final attempt after io.EOF, p what req.parse(buf[:readTo]) returned
OnFinalParse(m, p) ==
    IF p.err # ErrNil
    THEN [m EXCEPT !.req = p.r, !.pc = "returned", !.result = ParseFailure(p.err)]
    ELSE [(IF p.n > 0 THEN Compact(m, p.n) ELSE m)
            EXCEPT !.req = p.r, !.pc = "returned",
                   !.result = IF p.r.state = ParserDone
                              THEN Ok(p.r) ELSE Fail(ErrIncomplete)]

\* the error of the Read replaced by one error for every failed read
OnReadOneError(m, err) ==
    IF err = ErrNil THEN [m EXCEPT !.pc = "parse"]
    ELSE IF err = EOF
    THEN OnFinalParse(m, Parse(m.req, Slice(m.buf, 0, m.readTo)))
    ELSE [m EXCEPT !.pc = "returned", !.result = Fail(ErrTransport)]

\* what follows the Read, m with the bytes read already in buf
OnRead(m, err) ==
    IF err = ErrNil THEN [m EXCEPT !.pc = "parse"]
    ELSE IF err = EOF
    THEN OnFinalParse(m, Parse(m.req, Slice(m.buf, 0, m.readTo)))
    ELSE [m EXCEPT !.pc = "returned", !.result = Fail(err)]

\* reader.Read(buf[readTo:]) returned (Len(bytes), err), and what follows it
AfterRead(m, bytes, err) == OnRead(Filled(m, bytes), err)

\* the locals of a fresh call
NewCall ==
    [req |-> NewRequest, buf |-> MakeBuf(BufInit), readTo |-> 0,
     pc |-> "parse", result |-> Running]

\* RequestFromReader on a source that holds all of s and then reports end
\* (with end = EOF this is strings.NewReader(s): each Read fills the free
\* space), from the locals m with p bytes read
RECURSIVE RunSource(_, _, _, _)
RunSource(s, end, m, p) ==
    IF m.pc = "returned" THEN m
    ELSE IF m.pc = "parse" THEN RunSource(s, end, LoopStep(m), p)
    ELSE LET n == Min(Len(m.buf) - m.readTo, Len(s) - p)
         IN  IF n > 0
             THEN RunSource(s, end, AfterRead(m, SubSeq(s, p + 1, p + n), ErrNil), p + n)
             ELSE RunSource(s, end, AfterRead(m, <<>>, end), p)

RequestFromWhole(s) == RunSource(s, EOF, NewCall, 0).result

-----------------------------------------------------------------------------
(* The byte streams of the model: request lines, header blocks and bodies  *)

HTTP11 == HTTPSlash \o OneDotOne
GetSlash == <<"G", "E", "T", " ", "/", " ">>

RLGet == GetSlash \o HTTP11
RLPut == <<"P", "U", "T", " ", "/", "a", " ">> \o HTTP11
RLHttp2 == GetSlash \o HTTPSlash \o <<"2", ".", "0">>

ValidRequestLines == {RLGet, RLPut}

\* the valid request lines and the malformed ones: two tokens, one token,
\* lowercase and mixed-case method, HTTP/2.0, lowercase http/, a version
\* without HTTP/, an empty method, a target without "/", four tokens, two
\* spaces in a row, the empty line
RequestLines ==
    {RLGet, RLPut,
     <<"/", "a", " ">> \o HTTP11,
     <<"G", "E", "T">>,
     <<"g", "e", "t", " ", "/", " ">> \o HTTP11,
     <<"G", "e", "T", " ", "/", " ">> \o HTTP11,
     RLHttp2,
     GetSlash \o <<"h", "t", "t", "p", "/">> \o OneDotOne,
     GetSlash \o OneDotOne,
     <<" ", "/", " ">> \o HTTP11,
     <<"G", "E", "T", " ", "a", " ">> \o HTTP11,
     RLGet \o <<" ", "x">>,
     <<"G", "E", "T", " ", " ", "/", " ">> \o HTTP11,
     <<>>}

HostLine == <<"H", "o", "s", "t", ":", " ", "a">>
CLColon == ContentLengthName \o <<":">>
CL(v) == CLColon \o <<" ">> \o v

\* twenty digits: beyond int64
Digits20 == [i \in 1..20 |-> "9"]

\* header blocks, each a sequence of lines; the valid ones with the length they declare
ValidBlocks ==
    {[lines |-> <<>>, declared |-> 0],
     [lines |-> <<HostLine>>, declared |-> 0],
     [lines |-> <<ToLower(CL(<<"0">>))>>, declared |-> 0],
     [lines |-> <<CL(<<"2">>)>>, declared |-> 2],
     [lines |-> <<HostLine, CL(<<"3">>)>>, declared |-> 3],
     [lines |-> <<CL(<<"1", "0">>)>>, declared |-> 10]}

\* the other blocks: Content-Length -1, x, given twice, beyond int64, of
\* sixteen digits (an int64 beyond maxAlloc) and empty; a header line without
\* colon and one with a space before the colon
OtherBlocks ==
    {<<CL(<<"-", "1">>)>>, <<CL(<<"x">>)>>, <<CL(<<"2">>), CL(<<"2">>)>>,
     <<CL(Digits20)>>, <<CL(<<"1">> \o [i \in 1..15 |-> "0"])>>, <<CLColon>>,
     <<<<"H", "o", "s", "t", " ", "a">>>>,
     <<<<"H", "o", "s", "t", " ", ":", " ", "a">>>>}

Blocks == {b.lines : b \in ValidBlocks} \cup OtherBlocks

Letters10 == <<"a", "b", "c", "d", "e", "f", "g", "h", "i", "j">>
BodyOf(n) == SubSeq(Letters10, 1, n)
Bodies == {BodyOf(n) : n \in {0, 1, 2, 3, 10}}

RECURSIVE JoinLines(_)
JoinLines(ls) == IF ls = <<>> THEN <<>> ELSE Head(ls) \o CRLF \o JoinLines(Tail(ls))

\* the wire format: request line, header lines, blank line, body
Render(rl, lines, body) == rl \o CRLF \o JoinLines(lines) \o CRLF \o body

\* the requests of the wire format whose body has exactly the declared length
ValidStreams ==
    {Render(rl, b.lines, BodyOf(b.declared)) : rl \in ValidRequestLines, b \in ValidBlocks}

\* a bodyless request with a second request behind it
Pipelined == Render(RLGet, <<>>, Render(RLPut, <<>>, <<>>))

\* the request of the test "Standard Headers", cut after its first header
StandardRequest ==
    Render(RLGet,
           <<<<"H","o","s","t",":"," ","l","o","c","a","l","h","o","s","t",":","4","2","0","6","9">>>>,
           <<>>)

Streams ==
    {Render(rl, <<>>, <<>>) : rl \in RequestLines}
    \cup {Render(RLGet, ls, body) : ls \in Blocks, body \in Bodies}
    \cup ValidStreams
    \cup {Pipelined, StandardRequest}

-----------------------------------------------------------------------------
(* RequestFromReader on a connection: the client has `stream` to send; a   *)
(* Read delivers some of the next bytes (as many as the network hands over *)
(* and the free space takes), or reports that the client closed (EOF),     *)
(* that the read deadline passed, or a transport error.                    *)

Cur == [req |-> req, buf |-> buf, readTo |-> readTo, pc |-> pc, result |-> result]

Set(m) ==
    /\ req' = m.req
    /\ buf' = m.buf
    /\ readTo' = m.readTo
    /\ pc' = m.pc
    /\ result' = m.result

TryParse ==
    /\ pc = "parse"
    /\ Set(LoopStep(Cur))
    /\ UNCHANGED <<stream, pos, srcEnd>>
    /\ UNCHANGED serverVars
    /\ UNCHANGED libVars

\* n, err := reader.Read(buf[readTo:]) with err == nil: at least one byte,
\* as many as are there and fit; a Read into an empty slice returns (0, nil)
ReadData ==
    /\ pc = "read"
    /\ \E n \in (IF readTo = Len(buf) THEN {0}
                ELSE 1..Min(Len(buf) - readTo, Len(stream) - pos)) :
         /\ Set(AfterRead(Cur, SubSeq(stream, pos + 1, pos + n), ErrNil))
         /\ pos' = pos + n
    /\ UNCHANGED <<stream, srcEnd>>
    /\ UNCHANGED serverVars
    /\ UNCHANGED libVars

ReadEnd(end) ==
    /\ pc = "read"
    /\ Set(AfterRead(Cur, <<>>, end))
    /\ srcEnd' = end
    /\ UNCHANGED <<stream, pos>>
    /\ UNCHANGED serverVars
    /\ UNCHANGED libVars

ReadEOF == ReadEnd(EOF)
ReadTimeout == ReadEnd(ErrTimeout)
ReadError == ReadEnd(ErrTransport)

ParserInit ==
    /\ stream \in Streams
    /\ pos = 0
    /\ srcEnd = "none"
    /\ req = NewCall.req
    /\ buf = NewCall.buf
    /\ readTo = NewCall.readTo
    /\ pc = NewCall.pc
    /\ result = NewCall.result

-----------------------------------------------------------------------------
(* internal/server: Serve has returned; listen runs in its goroutine, one  *)
(* worker goroutine (handle) runs per accepted connection, and Close is    *)
(* called once by the owner of the server.                                 *)

NumConns == 2
Conns == 1..NumConns

StatusOk == 200
StatusBadRequest == 400
StatusInternalServerError == 500

\* what the clients of the server model send: a request, a request with a
\* negative Content-Length, and a request that stops before the end of its
\* headers; and how their stream ends
ClientStreams ==
    {Render(RLGet, <<HostLine>>, <<>>),
     Render(RLGet, <<CL(<<"-", "1">>)>>, <<>>),
     JoinLines(<<RLGet, HostLine>>)}
ClientEnds == {EOF, ErrTimeout}

\* what RequestFromReader returns for these clients, per end of the stream
ClientOutcomes ==
    [end \in ClientEnds |-> {RunSource(st, end, NewCall, 0).result : st \in ClientStreams}]

\* one write call: who made it (the server itself or the handler), for the
\* request of which connection, and the operation of the Writer with its data
WriteItem(from, c, op, arg) == [from |-> from, for |-> c, op |-> op, arg |-> arg]

\* conn.Write on connection c: the client of c receives the item
ConnWrite(w, c, item) == [w EXCEPT ![c] = Append(@, item)]

\* strconv.Itoa, and the %d of fmt: the decimal digits of n, with a sign
\* when n is negative
RECURSIVE NatDigits(_)
NatDigits(n) ==
    IF n < 10 THEN <<DigitChars[n + 1]>>
    ELSE Append(NatDigits(n \div 10), DigitChars[(n % 10) + 1])
Itoa(n) == IF n < 0 THEN <<"-">> \o NatDigits(0 - n) ELSE NatDigits(n)

\* response.GetDefaultHeaders(contentLen)
GetDefaultHeaders(contentLen) ==
    MapSet(MapSet(MapSet(NewHeaders,
        <<"c","o","n","t","e","n","t","-","l","e","n","g","t","h">>, Itoa(contentLen)),
        <<"c","o","n","n","e","c","t","i","o","n">>, <<"c","l","o","s","e">>),
        <<"c","o","n","t","e","n","t","-","t","y","p","e">>,
        <<"t","e","x","t","/","p","l","a","i","n">>)

\* the body the test handler sends, and the writes it makes in order
HandlerBody == <<"o", "k">>
HandlerWrites(c) ==
    <<WriteItem("handler", c, "WriteStatusLine", StatusOk),
      WriteItem("handler", c, "WriteHeaders", GetDefaultHeaders(Len(HandlerBody))),
      WriteItem("handler", c, "WriteBody", HandlerBody)>>

ClientConnect(c) ==
    /\ ~crashed
    /\ lnOpen
    /\ conn[c] = "none"
    /\ conn' = [conn EXCEPT ![c] = "queued"]
    /\ UNCHANGED <<closed, wg, lnOpen, hasHandler, lpc, lconn, cpc, wpc,
                   deadline, wire, hlog, wres, crashed, atClose>>
    /\ UNCHANGED parserVars
    /\ UNCHANGED libVars

\* s.listener.Accept() returns a connection
ListenAccept(c) ==
    /\ ~crashed
    /\ lpc = "accept"
    /\ lnOpen
    /\ conn[c] = "queued"
    /\ conn' = [conn EXCEPT ![c] = "open"]
    /\ lconn' = c
    /\ lpc' = "dispatch"
    /\ UNCHANGED <<closed, wg, lnOpen, hasHandler, cpc, wpc,
                   deadline, wire, hlog, wres, crashed, atClose>>
    /\ UNCHANGED parserVars
    /\ UNCHANGED libVars

\* an accept loop that takes every accept error for a transient one
ListenRetryAlways ==
    /\ ~crashed
    /\ lpc = "accept"
    /\ lpc' = "accept"
    /\ UNCHANGED <<closed, wg, lnOpen, hasHandler, lconn, cpc, wpc, conn,
                   deadline, wire, hlog, wres, crashed, atClose>>
    /\ UNCHANGED parserVars
    /\ UNCHANGED libVars

\* s.listener.Accept() returns an error: always once the listener is closed,
\* and possibly (a transient error) while it is open
ListenAcceptError ==
    /\ ~crashed
    /\ lpc = "accept"
    /\ lpc' = IF closed THEN "exited" ELSE "accept"
    /\ UNCHANGED <<closed, wg, lnOpen, hasHandler, lconn, cpc, wpc, conn,
                   deadline, wire, hlog, wres, crashed, atClose>>
    /\ UNCHANGED parserVars
    /\ UNCHANGED libVars

\* s.wg.Add(1); go s.handle(conn)
ListenDispatch ==
    /\ ~crashed
    /\ lpc = "dispatch"
    /\ wg' = wg + 1
    /\ wpc' = [wpc EXCEPT ![lconn] = "start"]
    /\ lconn' = 0
    /\ lpc' = "accept"
    /\ UNCHANGED <<closed, lnOpen, hasHandler, cpc, conn,
                   deadline, wire, hlog, wres, crashed, atClose>>
    /\ UNCHANGED parserVars
    /\ UNCHANGED libVars

\* w := response.NewWriter(conn); conn.SetReadDeadline(now + 5s)
WorkerStart(c) ==
    /\ ~crashed
    /\ wpc[c] = "start"
    /\ deadline' = [deadline EXCEPT ![c] = TRUE]
    /\ wpc' = [wpc EXCEPT ![c] = "parse"]
    /\ UNCHANGED <<closed, wg, lnOpen, hasHandler, lpc, lconn, cpc, conn,
                   wire, hlog, wres, crashed, atClose>>
    /\ UNCHANGED parserVars
    /\ UNCHANGED libVars

\* req, err := request.RequestFromReader(conn): the client sends one of
\* ClientStreams and then closes its side or stays silent; a silent client
\* ends the call only through the read deadline
WorkerParse(c) ==
    /\ ~crashed
    /\ wpc[c] = "parse"
    /\ \E end \in ClientEnds :
         /\ end = ErrTimeout => deadline[c]
         /\ \E r \in ClientOutcomes[end] :
                /\ wres' = [wres EXCEPT ![c] = r]
                /\ crashed' = (r.kind = "panic")
                /\ wpc' = [wpc EXCEPT ![c] =
                             IF r.kind = "err" THEN "errorReply" ELSE "clearDeadline"]
    /\ UNCHANGED <<closed, wg, lnOpen, hasHandler, lpc, lconn, cpc, conn, deadline, wire, hlog, atClose>>
    /\ UNCHANGED parserVars
    /\ UNCHANGED libVars

NoHandlerBody == "no handler"

\* the status and body of the error response the worker writes itself
ErrorReply(c) ==
    IF wres[c].kind = "err"
    THEN [status |-> StatusBadRequest, body |-> wres[c].err]
    ELSE [status |-> StatusInternalServerError, body |-> NoHandlerBody]

\* the error reply with the headers ahead of the status line
ErrorWritesHeadersFirst(c) ==
    <<WriteItem("server", c, "WriteHeaders", GetDefaultHeaders(Len(ErrorReply(c).body))),
      WriteItem("server", c, "WriteStatusLine", ErrorReply(c).status),
      WriteItem("server", c, "WriteBody", ErrorReply(c).body)>>

\* the three writes of an error path, in order; body is []byte(err.Error())
\* or []byte("no handler"), a string here, and Len(body) its len
ErrorWrites(c) ==
    <<WriteItem("server", c, "WriteStatusLine", ErrorReply(c).status),
      WriteItem("server", c, "WriteHeaders", GetDefaultHeaders(Len(ErrorReply(c).body))),
      WriteItem("server", c, "WriteBody", ErrorReply(c).body)>>

\* w.WriteStatusLine(...); w.WriteHeaders(...); w.WriteBody(body); return.
\* The errors of the three calls are dropped: the client takes the three
\* writes, or it has gone and every write fails
WorkerErrorReply(c) ==
    /\ ~crashed
    /\ wpc[c] = "errorReply"
    /\ \E k \in {0, Len(ErrorWrites(c))} :
         wire' = [wire EXCEPT ![c] = @ \o SubSeq(ErrorWrites(c), 1, k)]
    /\ wpc' = [wpc EXCEPT ![c] = "closeConn"]
    /\ UNCHANGED <<closed, wg, lnOpen, hasHandler, lpc, lconn, cpc, conn, deadline, hlog, wres, crashed, atClose>>
    /\ UNCHANGED parserVars
    /\ UNCHANGED libVars

\* conn.SetReadDeadline(time.Time{}); if s.handler == nil
WorkerClearDeadline(c) ==
    /\ ~crashed
    /\ wpc[c] = "clearDeadline"
    /\ deadline' = [deadline EXCEPT ![c] = FALSE]
    /\ wpc' = [wpc EXCEPT ![c] = IF hasHandler THEN "handler" ELSE "errorReply"]
    /\ UNCHANGED <<closed, wg, lnOpen, hasHandler, lpc, lconn, cpc, conn, wire, hlog, wres, crashed, atClose>>
    /\ UNCHANGED parserVars
    /\ UNCHANGED libVars

\* what one call of the handler is given, and the server's state at the call
HandlerCallRecord(c) ==
    [req |-> wres[c].req, writer |-> c, deadline |-> deadline[c],
     closeReturned |-> cpc = "returned"]

\* s.handler(w, req)
HandlerCall(c) ==
    /\ ~crashed
    /\ wpc[c] = "handler"
    /\ hlog' = [hlog EXCEPT ![c] = Append(@, HandlerCallRecord(c))]
    /\ wpc' = [wpc EXCEPT ![c] = "handlerWrite"]
    /\ UNCHANGED <<closed, wg, lnOpen, hasHandler, lpc, lconn, cpc, conn, deadline, wire, wres, crashed, atClose>>
    /\ UNCHANGED parserVars
    /\ UNCHANGED libVars

\* one writer shared by all workers, bound to the first connection
WriterShared(c) == 1

\* the connection the worker's writer w writes to
WriterDest(c) == c

\* how many writes the handler called on connection c has made
HandlerWritten(c) ==
    Cardinality({i \in DOMAIN wire[WriterDest(c)] :
                   /\ wire[WriterDest(c)][i].from = "handler"
                   /\ wire[WriterDest(c)][i].for = c})

\* the handler's next write through w; after the last one it returns
HandlerWrite(c) ==
    /\ ~crashed
    /\ wpc[c] = "handlerWrite"
    /\ \E k \in DOMAIN HandlerWrites(c) :
         /\ k = HandlerWritten(c) + 1
         /\ wire' = ConnWrite(wire, WriterDest(c), HandlerWrites(c)[k])
         /\ wpc' = [wpc EXCEPT ![c] =
                      IF k = Len(HandlerWrites(c)) THEN "closeConn" ELSE "handlerWrite"]
    /\ UNCHANGED <<closed, wg, lnOpen, hasHandler, lpc, lconn, cpc, conn, deadline, hlog, wres, crashed, atClose>>
    /\ UNCHANGED parserVars
    /\ UNCHANGED libVars

\* a worker that returns without closing its connection
WorkerLeavesOpen(c) ==
    /\ ~crashed
    /\ wpc[c] = "closeConn"
    /\ wpc' = [wpc EXCEPT ![c] = "wgDone"]
    /\ UNCHANGED <<closed, wg, lnOpen, hasHandler, lpc, lconn, cpc, conn, deadline, wire, hlog, wres, crashed, atClose>>
    /\ UNCHANGED parserVars
    /\ UNCHANGED libVars

\* defer conn.Close()
WorkerCloseConn(c) ==
    /\ ~crashed
    /\ wpc[c] = "closeConn"
    /\ conn' = [conn EXCEPT ![c] = "closed"]
    /\ wpc' = [wpc EXCEPT ![c] = "wgDone"]
    /\ UNCHANGED <<closed, wg, lnOpen, hasHandler, lpc, lconn, cpc, deadline, wire, hlog, wres, crashed, atClose>>
    /\ UNCHANGED parserVars
    /\ UNCHANGED libVars

\* a worker that ends without s.wg.Done()
WorkerDoneNoCount(c) ==
    /\ ~crashed
    /\ wpc[c] = "wgDone"
    /\ wpc' = [wpc EXCEPT ![c] = "finished"]
    /\ UNCHANGED <<closed, wg, lnOpen, hasHandler, lpc, lconn, cpc, conn, deadline, wire, hlog, wres, crashed, atClose>>
    /\ UNCHANGED parserVars
    /\ UNCHANGED libVars

\* defer s.wg.Done()
WorkerDone(c) ==
    /\ ~crashed
    /\ wpc[c] = "wgDone"
    /\ wg' = wg - 1
    /\ wpc' = [wpc EXCEPT ![c] = "finished"]
    /\ UNCHANGED <<closed, lnOpen, hasHandler, lpc, lconn, cpc, conn, deadline, wire, hlog, wres, crashed, atClose>>
    /\ UNCHANGED parserVars
    /\ UNCHANGED libVars

\* the connections whose worker is in flight: dispatched (wg.Add(1) done)
\* and not yet through its wg.Done()
InFlight == {c \in Conns : wpc[c] \notin {"none", "finished"}}

\* Close is called: s.closed.Store(true)
CloseStore ==
    /\ ~crashed
    /\ cpc = "idle"
    /\ closed' = TRUE
    /\ atClose' = InFlight
    /\ cpc' = "closeListener"
    /\ UNCHANGED <<wg, lnOpen, hasHandler, lpc, lconn, wpc, conn, deadline, wire, hlog, wres, crashed>>
    /\ UNCHANGED parserVars
    /\ UNCHANGED libVars

\* a Close that closes the open connections with the listener
CloseListenerAndConns ==
    /\ ~crashed
    /\ cpc = "closeListener"
    /\ lnOpen' = FALSE
    /\ conn' = [c \in Conns |-> IF conn[c] = "open" THEN "closed" ELSE conn[c]]
    /\ cpc' = "wait"
    /\ UNCHANGED <<closed, wg, hasHandler, lpc, lconn, wpc, deadline, wire, hlog, wres, crashed, atClose>>
    /\ UNCHANGED parserVars
    /\ UNCHANGED libVars

\* s.listener.Close()
CloseListener ==
    /\ ~crashed
    /\ cpc = "closeListener"
    /\ lnOpen' = FALSE
    /\ cpc' = "wait"
    /\ UNCHANGED <<closed, wg, hasHandler, lpc, lconn, wpc, conn, deadline, wire, hlog, wres, crashed, atClose>>
    /\ UNCHANGED parserVars
    /\ UNCHANGED libVars

\* a Close that returns without waiting for the counter
CloseNoWait ==
    /\ ~crashed
    /\ cpc = "wait"
    /\ cpc' = "returned"
    /\ UNCHANGED <<closed, wg, lnOpen, hasHandler, lpc, lconn, wpc, conn, deadline, wire, hlog, wres, crashed, atClose>>
    /\ UNCHANGED parserVars
    /\ UNCHANGED libVars

\* a Close that also waits for the accept loop to exit
CloseWaitForLoop ==
    /\ ~crashed
    /\ cpc = "wait"
    /\ wg = 0
    /\ lpc = "exited"
    /\ cpc' = "returned"
    /\ UNCHANGED <<closed, wg, lnOpen, hasHandler, lpc, lconn, wpc, conn, deadline, wire, hlog, wres, crashed, atClose>>
    /\ UNCHANGED parserVars
    /\ UNCHANGED libVars

\* s.wg.Wait() returns, and Close returns nil
CloseWait ==
    /\ ~crashed
    /\ cpc = "wait"
    /\ wg = 0
    /\ cpc' = "returned"
    /\ UNCHANGED <<closed, wg, lnOpen, hasHandler, lpc, lconn, wpc, conn, deadline, wire, hlog, wres, crashed, atClose>>
    /\ UNCHANGED parserVars
    /\ UNCHANGED libVars

-----------------------------------------------------------------------------
(* The specifications *)

\* the server part while only RequestFromReader runs
ServerUnused ==
    /\ closed = FALSE
    /\ wg = 0
    /\ lnOpen = FALSE
    /\ hasHandler = FALSE
    /\ lpc = "exited"
    /\ lconn = 0
    /\ cpc = "idle"
    /\ wpc = [c \in Conns |-> "none"]
    /\ conn = [c \in Conns |-> "none"]
    /\ deadline = [c \in Conns |-> FALSE]
    /\ wire = [c \in Conns |-> <<>>]
    /\ hlog = [c \in Conns |-> <<>>]
    /\ wres = [c \in Conns |-> Running]
    /\ crashed = FALSE
    /\ atClose = {}

\* the state after Serve(port, handler) returned
ServerInit ==
    /\ closed = FALSE
    /\ wg = 0
    /\ lnOpen = TRUE
    /\ hasHandler \in BOOLEAN
    /\ lpc = "accept"
    /\ lconn = 0
    /\ cpc = "idle"
    /\ wpc = [c \in Conns |-> "none"]
    /\ conn = [c \in Conns |-> "none"]
    /\ deadline = [c \in Conns |-> FALSE]
    /\ wire = [c \in Conns |-> <<>>]
    /\ hlog = [c \in Conns |-> <<>>]
    /\ wres = [c \in Conns |-> Running]
    /\ crashed = FALSE
    /\ atClose = {}

\* the parser part while the server model runs (each worker's call of
\* RequestFromReader is taken as a whole by WorkerParse)
ParserUnused ==
    /\ stream = <<>>
    /\ pos = 0
    /\ srcEnd = "none"
    /\ req = NewRequest
    /\ buf = <<>>
    /\ readTo = 0
    /\ pc = "returned"
    /\ result = Running

\* the packages checked on their own, while the parser or the server runs
LibUnused ==
    /\ hdrs = NewHeaders
    /\ hdata = <<>>
    /\ hlast = [op |-> "none"]
    /\ dest = <<>>
    /\ wlast = [op |-> "none", arg |-> 0, before |-> <<>>, n |-> 0, err |-> ErrNil,
                fault |-> [at |-> 0, kind |-> "ok"], chunks |-> 0, sent |-> <<>>]

Init == ParserInit /\ ServerUnused /\ LibUnused

Next ==
    \/ TryParse
    \/ ReadData
    \/ ReadEOF
    \/ ReadTimeout
    \/ ReadError

Spec == Init /\ [][Next]_vars

\* RequestFromReader with its scheduling: the goroutine that runs it takes
\* its next step, and a Read that was called returns (with bytes, with EOF
\* once the client has closed, or with the error of the deadline or of the
\* transport). This is weak fairness of the pass of the loop and of the
\* return of the Read, WF_vars(A) being []<>~ENABLED <<A>>_vars \/
\* []<><<A>>_vars; the two enabling conditions are written as the guards
\* of the actions, pc = "parse" and pc = "read" (a pass of the loop always
\* changes pc or readTo, a return of the Read changes pc).
SpecFair ==
    /\ Init
    /\ [][Next]_vars
    /\ []<>(pc # "parse") \/ []<><<TryParse>>_vars
    /\ []<>(pc # "read") \/ []<><<ReadData \/ ReadEOF \/ ReadTimeout \/ ReadError>>_vars

InitServer == ServerInit /\ ParserUnused /\ LibUnused

NextServer ==
    \/ \E c \in Conns : ClientConnect(c)
    \/ \E c \in Conns : ListenAccept(c)
    \/ ListenAcceptError
    \/ ListenDispatch
    \/ \E c \in Conns : WorkerStart(c)
    \/ \E c \in Conns : WorkerParse(c)
    \/ \E c \in Conns : WorkerErrorReply(c)
    \/ \E c \in Conns : WorkerClearDeadline(c)
    \/ \E c \in Conns : HandlerCall(c)
    \/ \E c \in Conns : HandlerWrite(c)
    \/ \E c \in Conns : WorkerCloseConn(c)
    \/ \E c \in Conns : WorkerDone(c)
    \/ CloseStore
    \/ CloseListener
    \/ CloseWait

SpecServer == InitServer /\ [][NextServer]_vars

\* the server with its scheduling: a goroutine that can take a step takes
\* it (workers, the accept loop, a Close under way), Accept on a closed
\* listener returns its error, and the read deadline ends a read on a
\* silent client. No client has to connect, Close need not be called, and
\* an open listener need not report errors.
SpecServerFair ==
    /\ InitServer
    /\ [][NextServer]_vars
    /\ \A c \in Conns :
         WF_vars(\/ WorkerStart(c) \/ WorkerParse(c) \/ WorkerErrorReply(c)
                 \/ WorkerClearDeadline(c) \/ HandlerCall(c) \/ HandlerWrite(c)
                 \/ WorkerCloseConn(c) \/ WorkerDone(c))
    /\ WF_vars(\/ \E c \in Conns : ListenAccept(c)
               \/ ListenDispatch
               \/ ListenAcceptError /\ ~lnOpen)
    /\ WF_vars(CloseListener \/ CloseWait)

-----------------------------------------------------------------------------
(* Headers.Parse on its own, called as TestHeaders and Request.parse call  *)
(* it: on the data not yet consumed, until it reports done, an error or   *)
(* that it needs more data.                                                *)

MaxHeaderLines == 2

\* header lines (without CRLF): a name in three letter cases, an empty
\* value, a padded value, a name with digit and punctuation; then a space
\* before the colon, a leading space, an interior space, an interior tab, no
\* colon, a character outside the whitelist, nothing before the colon
HeaderLines ==
    {HostLine,
     <<"H", "O", "S", "T", ":", " ", "b">>,
     <<"h", "o", "s", "t", ":">>,
     <<"H", "o", "s", "t", ":", " ", " ", "c", " ", "d", " ">>,
     <<"X", "-", "1", ":", "e">>,
     <<"H", "o", "s", "t", " ", ":", " ", "a">>,
     <<" ", "H", "o", "s", "t", ":", " ", "a">>,
     <<"H", "o", " ", "s", "t", ":", " ", "a">>,
     <<"H", "o", "\t", "s", "t", ":", " ", "a">>,
     <<"H", "o", "s", "t", " ", "a">>,
     <<"H", "@", "s", "t", ":", " ", "a">>,
     <<":", " ", "x">>}

\* what a caller may hold: up to MaxHeaderLines lines, then the blank line,
\* nothing, or the start of a line
HeaderInputs ==
    {JoinLines(ls) \o tail :
        ls \in UNION {[1..n -> HeaderLines] : n \in 0..MaxHeaderLines},
        tail \in {CRLF, <<>>, <<"H", "o">>}}

\* n, done, err := headers.Parse(data), and the caller moves on by n bytes
HeadersParseCall ==
    /\ IF hlast.op = "none" THEN TRUE
       ELSE hlast.err = ErrNil /\ ~hlast.done /\ hlast.n > 0
    /\ \E r \in {HeadersParse(hdrs, hdata)} :
         /\ hdrs' = r.h
         /\ hdata' = Slice(hdata, r.n, Len(hdata))
         /\ hlast' = [op |-> "Parse", data |-> hdata, before |-> hdrs,
                      n |-> r.n, done |-> r.done, err |-> r.err]
    /\ UNCHANGED <<dest, wlast>>
    /\ UNCHANGED parserVars
    /\ UNCHANGED serverVars

InitHeaders ==
    /\ ParserUnused
    /\ ServerUnused
    /\ hdrs = NewHeaders
    /\ hdata \in HeaderInputs
    /\ hlast = [op |-> "none"]
    /\ dest = <<>>
    /\ wlast = [op |-> "none", arg |-> 0, before |-> <<>>, n |-> 0, err |-> ErrNil,
                fault |-> [at |-> 0, kind |-> "ok"], chunks |-> 0, sent |-> <<>>]

SpecHeaders == InitHeaders /\ [][HeadersParseCall]_vars

-----------------------------------------------------------------------------
(* response.Writer on its own: the calls of a handler on one Writer, whose *)
(* dest is a sink that may fail.                                           *)

StatusRequestTimeout == 408

\* a switch without the case of StatusRequestTimeout
ReasonPhraseNoTimeout(statusCode) ==
    CASE statusCode = StatusOk -> <<"O", "K">>
      [] statusCode = StatusBadRequest ->
            <<"B", "a", "d", " ", "R", "e", "q", "u", "e", "s", "t">>
      [] statusCode = StatusInternalServerError ->
            <<"I", "n", "t", "e", "r", "n", "a", "l", " ", "S", "e", "r", "v", "e", "r",
              " ", "E", "r", "r", "o", "r">>
      [] OTHER -> <<>>

\* the switch of WriteStatusLine
ReasonPhrase(statusCode) ==
    CASE statusCode = StatusOk -> <<"O", "K">>
      [] statusCode = StatusBadRequest -> <<"B", "a", "d", " ", "R", "e", "q", "u", "e", "s", "t">>
      [] statusCode = StatusInternalServerError ->
            <<"I", "n", "t", "e", "r", "n", "a", "l", " ", "S", "e", "r", "v", "e", "r">> \o
            <<" ", "E", "r", "r", "o", "r">>
      [] statusCode = StatusRequestTimeout -> <<"R", "e", "q", "u", "e", "s", "t", " ", "T", "i", "m", "e", "o", "u", "t">>
      [] OTHER -> <<>>

\* what WriteStatusLine formats: "HTTP/1.1 %d \r\n" when the reason is empty,
\* "HTTP/1.1 %d %s\r\n" otherwise
StatusLine(statusCode, reason) ==
    IF reason = <<>>
    THEN <<"H", "T", "T", "P", "/", "1", ".", "1", " ">> \o Itoa(statusCode) \o <<" ">> \o CRLF
    ELSE <<"H", "T", "T", "P", "/", "1", ".", "1", " ">> \o Itoa(statusCode) \o <<" ">> \o reason \o CRLF

\* the status codes the callers of the model pass: the four constants and
\* other values of the int type
StatusCodes ==
    {StatusOk, StatusBadRequest, StatusInternalServerError, StatusRequestTimeout,
     404, 204, 99, 1000, 0, 0 - 1}

MaxChunks == 1

\* the errors of the Writer: the one its sink returned, "no bytes written
\* for ...", "short write for chunk"
ErrSink == "sink error"
ErrNoBytes == "no bytes written"
ErrShortWrite == "short write for chunk"

\* what one Write of the sink w.dest may do with p: take it all; return an
\* error; report 0 bytes without error; take all but the last byte and
\* report that without error
SinkOutcomes == {"ok", "err", "zero", "short"}

\* n, err := w.dest.Write(p), on a sink that holds d
SinkWrite(d, p, outcome) ==
    CASE outcome = "ok" -> [dest |-> d \o p, n |-> Len(p), err |-> ErrNil]
      [] outcome = "err" -> [dest |-> d, n |-> 0, err |-> ErrSink]
      [] outcome = "zero" -> [dest |-> d, n |-> 0, err |-> ErrNil]
      [] outcome = "short" ->
            IF Len(p) = 0 THEN [dest |-> d, n |-> 0, err |-> ErrNil]
            ELSE [dest |-> d \o SubSeq(p, 1, Len(p) - 1), n |-> Len(p) - 1, err |-> ErrNil]

\* the sink writes of one call are numbered from 1; at most one of them is
\* faulty
NoFault == [at |-> 0, kind |-> "ok"]
Faults(writes) == {NoFault} \cup [at : 1..writes, kind : SinkOutcomes \ {"ok"}]
OutcomeAt(fault, i) == IF fault.at = i THEN fault.kind ELSE "ok"

\* n, err := fmt.Fprintf(w.dest, ...); if err != nil { return err };
\* if n <= 0 { return fmt.Errorf("no bytes written ...") }
FprintfError(r) ==
    IF r.err # ErrNil THEN r.err ELSE IF r.n <= 0 THEN ErrNoBytes ELSE ErrNil

\* what a Writer method leaves on the sink and returns
Returns(r, n, err) == [dest |-> r.dest, n |-> n, err |-> err]

\* Writer.WriteStatusLine
WriteStatusLine(d, statusCode, fault) ==
    \* the only write: the status line
    (LET r == SinkWrite(d, StatusLine(statusCode, ReasonPhrase(statusCode)),
                        OutcomeAt(fault, 1))
     IN  Returns(r, 0, FprintfError(r)))

\* the iteration orders of range h
Orders(h) ==
    {o \in [1..Cardinality(DOMAIN h) -> DOMAIN h] :
        \A i, j \in DOMAIN o : o[i] = o[j] => i = j}

\* "%s=%s\r\n" in the place of "%s: %s\r\n"
FieldLineEquals(key, value) == key \o <<"=">> \o value \o CRLF

\* fmt.Fprintf(w.dest, "%s: %s\r\n", key, value)
FieldLine(key, value) == key \o <<":", " ">> \o value \o CRLF

\* Writer.WriteHeaders from the i-th key of the iteration on: one write per
\* key, then the write of the final CRLF
RECURSIVE WriteHeadersFrom(_, _, _, _, _)
WriteHeadersNext(r, h, order, i, fault) ==
    IF FprintfError(r) # ErrNil THEN Returns(r, 0, FprintfError(r))
    ELSE IF i > Len(order) THEN Returns(r, 0, ErrNil)
    ELSE WriteHeadersFrom(r.dest, h, order, i + 1, fault)
WriteHeadersFrom(d, h, order, i, fault) ==
    IF i > Len(order)
    THEN WriteHeadersNext(SinkWrite(d, CRLF, OutcomeAt(fault, i)), h, order, i, fault)
    ELSE WriteHeadersNext(SinkWrite(d, FieldLine(order[i], h[order[i]]), OutcomeAt(fault, i)),
                          h, order, i, fault)

\* Writer.WriteHeaders, the map iterated in the given order
WriteHeaders(d, h, order, fault) == WriteHeadersFrom(d, h, order, 1, fault)

\* Writer.WriteTrailers: the code of WriteHeaders once more
WriteTrailers(d, h, order, fault) == WriteHeadersFrom(d, h, order, 1, fault)

\* Writer.WriteBody: return w.dest.Write(p)
WriteBody(d, p, fault) == SinkWrite(d, p, OutcomeAt(fault, 1))

\* the %x of fmt: lower-case hexadecimal
HexChars == DigitChars \o <<"a", "b", "c", "d", "e", "f">>

\* %X in the place of %x
RECURSIVE HexUpper(_)
HexUpper(n) ==
    IF n < 16 THEN <<(DigitChars \o <<"A", "B", "C", "D", "E", "F">>)[n + 1]>>
    ELSE Append(HexUpper(n \div 16), (DigitChars \o <<"A", "B", "C", "D", "E", "F">>)[(n % 16) + 1])

RECURSIVE Hex(_)
Hex(n) ==
    IF n < 16 THEN <<HexChars[n + 1]>>
    ELSE Append(Hex(n \div 16), HexChars[(n % 16) + 1])

\* Writer.WriteChunkedBody after the write of the payload (r, or the state
\* after the size line when the payload is empty): the terminating CRLF
ChunkEnd(r, p, fault) ==
    (LET r3 == SinkWrite(r.dest, CRLF, OutcomeAt(fault, 3))
     IN  IF FprintfError(r3) # ErrNil THEN Returns(r3, 0, FprintfError(r3))
         ELSE Returns(r3, Len(p), ErrNil))

\* Writer.WriteChunkedBody after the write of the size line: the payload
ChunkPayload(r1, p, fault) ==
    IF Len(p) > 0
    THEN (LET r2 == SinkWrite(r1.dest, p, OutcomeAt(fault, 2))
          IN  IF r2.err # ErrNil THEN Returns(r2, 0, r2.err)
              ELSE IF r2.n # Len(p) THEN Returns(r2, r2.n, ErrShortWrite)
              ELSE ChunkEnd(r2, p, fault))
    ELSE ChunkEnd(r1, p, fault)

\* Writer.WriteChunkedBody: size line (write 1), payload (write 2), CRLF
\* (write 3)
WriteChunkedBody(d, p, fault) ==
    (LET r1 == SinkWrite(d, Hex(Len(p)) \o CRLF, OutcomeAt(fault, 1))
     IN  IF FprintfError(r1) # ErrNil THEN Returns(r1, 0, FprintfError(r1))
         ELSE ChunkPayload(r1, p, fault))

\* the last chunk and the blank line that ends an empty trailer section
WriteChunkedBodyDoneBlank(d, fault) ==
    (LET r == SinkWrite(d, <<"0">> \o CRLF \o CRLF, OutcomeAt(fault, 1))
     IN  Returns(r, 0, FprintfError(r)))

\* Writer.WriteChunkedBodyDone
WriteChunkedBodyDone(d, fault) ==
    (LET r == SinkWrite(d, <<"0">> \o CRLF, OutcomeAt(fault, 1))
     IN  Returns(r, 0, FprintfError(r)))

\* the payloads, header tables and trailers the callers of the model pass;
\* the trailers are those of handleHTTPBin
Payloads == {<<>>, <<"a", "b", "c">>, <<"h", "e", "l", "l", "o">>, LowerLetters}
HeaderSets == {GetDefaultHeaders(Len(p)) : p \in Payloads}
TrailerSets ==
    {NewHeaders,
     MapSet(MapSet(NewHeaders,
         <<"X","-","C","o","n","t","e","n","t","-","S","H","A","2","5","6">>,
         <<"5", "e">>),
         <<"X","-","C","o","n","t","e","n","t","-","L","e","n","g","t","h">>, <<"3">>)}

\* a call of the handler on its Writer has returned r: the sink holds what
\* the call left there, and wlast what was called, with what, on which sink
\* contents, what it returned, which sink write was faulty, how many chunks
\* have been written, and the calls so far, each with the sink contents it
\* found
Called(op, arg, fault, r) ==
    /\ dest' = r.dest
    /\ wlast' = [op |-> op, arg |-> arg, before |-> dest, n |-> r.n, err |-> r.err,
                 fault |-> fault,
                 chunks |-> IF op = "WriteChunkedBody" THEN wlast.chunks + 1
                            ELSE wlast.chunks,
                 sent |-> Append(wlast.sent, [op |-> op, arg |-> arg, before |-> dest])]
    /\ UNCHANGED <<hdrs, hdata, hlast>>
    /\ UNCHANGED parserVars
    /\ UNCHANGED serverVars

\* the last call was one of ops and its sink writes all went through: the
\* calls on a Writer follow the order of a response, as those of
\* Server.handle and of every handler do, and a response is followed up to
\* its first faulty sink write
After(ops) == wlast.op \in ops /\ wlast.fault = NoFault

CallWriteStatusLine ==
    /\ After({"none"})
    /\ \E statusCode \in StatusCodes, fault \in Faults(1) :
         Called("WriteStatusLine", statusCode, fault,
                WriteStatusLine(dest, statusCode, fault))

CallWriteHeaders ==
    /\ After({"WriteStatusLine"})
    /\ \E h \in HeaderSets :
         \E order \in Orders(h), fault \in Faults(Cardinality(DOMAIN h) + 1) :
            Called("WriteHeaders", h, fault, WriteHeaders(dest, h, order, fault))

CallWriteBody ==
    /\ After({"WriteHeaders"})
    /\ \E p \in Payloads, fault \in Faults(1) :
         Called("WriteBody", p, fault, WriteBody(dest, p, fault))

CallWriteChunkedBody ==
    /\ After({"WriteHeaders", "WriteChunkedBody"})
    /\ wlast.chunks < MaxChunks
    /\ \E p \in Payloads, fault \in Faults(3) :
         Called("WriteChunkedBody", p, fault, WriteChunkedBody(dest, p, fault))

CallWriteChunkedBodyDone ==
    /\ After({"WriteHeaders", "WriteChunkedBody"})
    /\ \E fault \in Faults(1) :
         Called("WriteChunkedBodyDone", 0, fault, WriteChunkedBodyDone(dest, fault))

CallWriteTrailers ==
    /\ After({"WriteChunkedBodyDone"})
    /\ \E h \in TrailerSets :
         \E order \in Orders(h), fault \in Faults(Cardinality(DOMAIN h) + 1) :
            Called("WriteTrailers", h, fault, WriteTrailers(dest, h, order, fault))

\* w := response.NewWriter(dest) on an empty dest
InitWriter ==
    /\ ParserUnused
    /\ ServerUnused
    /\ LibUnused

NextWriter ==
    \/ CallWriteStatusLine
    \/ CallWriteHeaders
    \/ CallWriteBody
    \/ CallWriteChunkedBody
    \/ CallWriteChunkedBodyDone
    \/ CallWriteTrailers

SpecWriter == InitWriter /\ [][NextWriter]_vars

-----------------------------------------------------------------------------
(* The reader of a response: doRequest of the integration test, for the    *)
(* status code and the body, and Headers.Parse for the header lines.       *)

\* the int of an Atoi result
IntOf(v) == IF v.neg THEN 0 - DigitsToNat(v.mag) ELSE DigitsToNat(v.mag)

\* bufio.Reader.ReadString('\n'): the bytes up to the first "\n" and that
\* byte, or what is left and io.EOF
ReadStringAt(data, i) ==
    IF i = -1 THEN [line |-> data, eof |-> TRUE]
    ELSE [line |-> Slice(data, 0, i + 1), eof |-> FALSE]
ReadString(data) == ReadStringAt(data, IndexByte(data, "\n"))

\* strings.TrimRight(s, "\r\n")
RECURSIVE TrimRightCRLF(_)
TrimRightCRLF(s) ==
    IF s # <<>> /\ s[Len(s)] \in {"\r", "\n"}
    THEN TrimRightCRLF(SubSeq(s, 1, Len(s) - 1))
    ELSE s

\* doRequest, the header loop: contentLen after a line that is not the
\* blank one; n, _ := strconv.Atoi(...) is 0 on a syntax error
ContentLenAfter(line, contentLen) ==
    IF HasPrefix(ToLower(line),
                 <<"c","o","n","t","e","n","t","-","l","e","n","g","t","h",":">>)
    THEN (LET v == Atoi(TrimSpace(Slice(line, IndexByte(line, ":") + 1, Len(line))))
          IN  IF v.err THEN 0 ELSE IntOf(v))
    ELSE contentLen

\* doRequest, the header loop on what is left of the response: the content
\* length and the bytes after the blank line
RECURSIVE ReadHeaderLines(_, _)
ReadHeaderLine(data, rs, contentLen) ==
    IF rs.eof THEN [err |-> TRUE, contentLen |-> contentLen, rest |-> <<>>]
    ELSE IF rs.line = CRLF
    THEN [err |-> FALSE, contentLen |-> contentLen,
          rest |-> Slice(data, Len(rs.line), Len(data))]
    ELSE ReadHeaderLines(Slice(data, Len(rs.line), Len(data)),
                         ContentLenAfter(TrimRightCRLF(rs.line), contentLen))
ReadHeaderLines(data, contentLen) == ReadHeaderLine(data, ReadString(data), contentLen)

\* doRequest, the body: io.ReadFull of contentLen bytes when contentLen > 0
ReadBody(code, hd) ==
    IF hd.err \/ (hd.contentLen > 0 /\ Len(hd.rest) < hd.contentLen)
    THEN [err |-> TRUE, code |-> code, body |-> <<>>]
    ELSE IF hd.contentLen > 0
    THEN [err |-> FALSE, code |-> code, body |-> SubSeq(hd.rest, 1, hd.contentLen)]
    ELSE [err |-> FALSE, code |-> code, body |-> <<>>]

\* doRequest from the status line on: [err, code, body]
ReadStatusLine(data, rs, parts) ==
    IF rs.eof \/ Len(parts) < 2
    THEN [err |-> TRUE, code |-> 0, body |-> <<>>]
    ELSE IF Atoi(parts[2]).err
    THEN [err |-> TRUE, code |-> 0, body |-> <<>>]
    ELSE ReadBody(IntOf(Atoi(parts[2])),
                  ReadHeaderLines(Slice(data, Len(rs.line), Len(data)), 0))

\* doRequest on the bytes of the response
doRequest(data) ==
    ReadStatusLine(data, ReadString(data), SplitN3(TrimRightCRLF(ReadString(data).line)))

\* Headers.Parse called on the header lines until it reports done, an error
\* or no progress: [err, h]
RECURSIVE ParseHeaderLines(_, _)
ParseHeaderStep(r, data) ==
    IF r.err # ErrNil \/ (r.n = 0 /\ ~r.done) THEN [err |-> TRUE, h |-> r.h]
    ELSE IF r.done THEN [err |-> FALSE, h |-> r.h]
    ELSE ParseHeaderLines(r.h, Slice(data, r.n, Len(data)))
ParseHeaderLines(h, data) == ParseHeaderStep(HeadersParse(h, data), data)

\* the header set of a response: its lines after the status line
ResponseHeaders(data) ==
    ParseHeaderLines(NewHeaders, Slice(data, Len(ReadString(data).line), Len(data)))

-----------------------------------------------------------------------------
(* Properties of RequestFromReader (specification Spec)                    *)

\* the call has returned after the source delivered all of stream, in
\* whatever fragments, and then (at most) reported EOF
ReturnedAfterAll ==
    /\ pc = "returned"
    /\ pos = Len(stream)
    /\ srcEnd \in {"none", EOF}

\* C1: for every valid request and every way the source splits it into
\* non-empty fragments, one per Read, followed by EOF, RequestFromReader
\* returns a request in state Done that equals, field by field, the request
\* returned when the source hands the bytes over contiguously.
FragmentationIndependence ==
    (ReturnedAfterAll /\ stream \in ValidStreams)
        => /\ result.kind = "ok"
           /\ result.req.state = ParserDone
           /\ result = RequestFromWhole(stream)

\* a valid request with a body has been returned after fragments that left
\* the buffer other than the contiguous delivery leaves it
FragmentedReturn ==
    /\ ReturnedAfterAll
    /\ stream \in ValidStreams
    /\ result.kind = "ok"
    /\ result.req.Body # <<>>
    /\ buf # RunSource(stream, EOF, NewCall, 0).buf

\* C5: when the source reports EOF the call returns the request exactly when
\* the final parse attempt leaves it Done, and otherwise an error and no
\* request; a valid request cut short anywhere (inside the request line,
\* inside the headers or their blank line, inside the declared body) gives
\* the incomplete-request error.
EndOfStream ==
    (pc = "returned" /\ srcEnd = EOF)
        => /\ IF req.state = ParserDone
              THEN result = Ok(req)
              ELSE result.kind \in {"err", "panic"}
           /\ (stream \in ValidStreams /\ pos < Len(stream))
                  => result = Fail(ErrIncomplete)

\* a valid request with a body was cut short inside the body
CutShortInBody ==
    /\ pc = "returned"
    /\ srcEnd = EOF
    /\ stream \in ValidStreams
    /\ pos < Len(stream)
    /\ req.state = requestStateParsingBody
    /\ req.Body # <<>>
    /\ result = Fail(ErrIncomplete)

\* the request line of the stream: its bytes before the first CRLF
FirstLine == Slice(stream, 0, IndexCRLF(stream))

\* the documented rule for a request line: two single spaces separate three
\* tokens, an all-uppercase method, a target that starts with "/" and the
\* version token HTTP/1.1
WellFormedRequestLine(line) ==
    \E i, j \in DOMAIN line :
        /\ i < j
        /\ {k \in DOMAIN line : line[k] = SP} = {i, j}
        /\ \A k \in 1..(i - 1) : IsUpper(line[k])
        /\ i + 1 < j
        /\ line[i + 1] = "/"
        /\ SubSeq(line, j + 1, Len(line)) = HTTP11

\* C6 as stated: the parser leaves Initialized only on a request line that
\* satisfies the documented rule; on any other line it stays in Initialized
\* and no request is returned.
RequestLineValidation ==
    ~WellFormedRequestLine(FirstLine)
        => /\ req.state = ParserInitialized
           /\ result.kind # "ok"

\* C7 as stated: once the parser has left Initialized, Method, RequestTarget
\* and HttpVersion of the request line are all non-empty.
RequestLineNonEmpty ==
    req.state # ParserInitialized
        => /\ req.RequestLine.Method # <<>>
           /\ req.RequestLine.RequestTarget # <<>>
           /\ req.RequestLine.HttpVersion # <<>>

\* the value of the Content-Length header of the request, "" when absent
DeclaredLength == HeadersGet(req.Headers, ContentLengthName)

\* the decimal text of n, for 1 <= n <= 99
DecimalOf(n) ==
    IF n < 10 THEN <<DigitChars[n + 1]>>
    ELSE <<DigitChars[(n \div 10) + 1], DigitChars[(n % 10) + 1]>>

\* the least element of a non-empty set of numbers
FirstOf(S) == CHOOSE i \in S : \A j \in S : i <= j

\* the offset of the blank line that ends the headers: of the first CRLF CRLF
BlankLineAt ==
    FirstOf({i \in 0..(Len(stream) - 4) : SubSeq(stream, i + 1, i + 4) = CRLF \o CRLF})

\* the bytes of the stream after the blank line that ends the headers
AfterBlankLine == SubSeq(stream, BlankLineAt + 5, Len(stream))

\* the headers are complete and declare a body of n bytes
DeclaresBody(n) ==
    /\ req.state \in {requestStateParsingBody, ParserDone}
    /\ DeclaredLength = DecimalOf(n)

\* the framing of a body of n bytes that are the first of tail
Framed(n, tail) ==
    /\ (req.state = ParserDone) = (Len(req.Body) = n)
    /\ req.Body = SubSeq(tail, 1, Len(req.Body))
    /\ result.kind = "ok" => result.req.Body = SubSeq(tail, 1, n)
    /\ (Len(req.Body) > n) = (pc = "returned" /\ result = Fail(ErrBodyOverrun))

\* the framing under the Content-Length value v, if that is 1, 2, .., 10
FramedAs(v, tail) ==
    \A n \in 1..Len(Letters10) : v = DecimalOf(n) => Framed(n, tail)

\* C8: with a Content-Length of n > 0 the parser is Done exactly when the
\* Body holds n bytes; the Body is always the bytes that follow the blank
\* line, in stream order; it holds more than n bytes only in the moment the
\* call returns the body-overrun error.
BodyFraming ==
    req.state \in {requestStateParsingBody, ParserDone}
        => FramedAs(DeclaredLength, AfterBlankLine)

\* a body of ten bytes has been returned, read in more than one piece
TenByteBodyReturned ==
    /\ DeclaresBody(Len(Letters10))
    /\ pc = "returned"
    /\ result.kind = "ok"
    /\ result.req.Body = Letters10
    /\ Len(buf) < Len(stream)

\* the request declares no body: no Content-Length, or one of 0
Bodyless == DeclaredLength \in {<<>>, <<"0">>}

\* C9: when Content-Length is absent or 0, the parse step taken in
\* ParsingBody moves to Done and consumes every byte in the buffer, the Body
\* stays empty, and the request line is for ever the one parsed from the
\* first line of the stream: what follows the blank line is never parsed.
BodylessRequests ==
    /\ [](req.state \in {requestStateParsingBody, ParserDone} /\ Bodyless
              => /\ req.Body = <<>>
                 /\ req.RequestLine = requestLineFromString(FirstLine).rl)
    /\ [][(pc = "parse" /\ req.state = requestStateParsingBody /\ Bodyless)
              => (req'.state = ParserDone /\ readTo' = 0 /\ req'.Body = <<>>)]_vars

\* the first of two pipelined requests has been returned after bytes of the
\* second one were delivered
SecondRequestIgnored ==
    /\ stream = Pipelined
    /\ pc = "returned"
    /\ result.kind = "ok"
    /\ result.req.state = ParserDone
    /\ pos > Len(Render(RLGet, <<>>, <<>>))

\* a Content-Length value that is no non-negative base-10 integer: it holds
\* a character that is no digit, or it is beyond the range of int
NotANaturalNumber(v) ==
    /\ v # <<>>
    /\ \/ \E i \in DOMAIN v : ~IsDigit(v[i])
       \/ DigitsLess(MaxInt64Digits, StripZeros(v))

\* C10 as stated: a Content-Length value that is no non-negative base-10
\* integer ends the call with an error returned to the caller.
InvalidLengthIsAnError ==
    (/\ pc = "returned"
     /\ req.state = requestStateParsingBody
     /\ NotANaturalNumber(DeclaredLength))
        => result.kind = "err"

\* RequestFromReader has returned on the stream
\* "GET / HTTP/1.1\r\nHost: localhost:42069\r\n\r\n", delivered whole in
\* whatever fragments
StandardRequestParsed == ReturnedAfterAll /\ stream = StandardRequest

\* what the call returns on that stream, but for the headers
StandardRequestLine ==
    /\ result.kind = "ok"
    /\ result.req.RequestLine.Method = <<"G", "E", "T">>
    /\ result.req.RequestLine.RequestTarget = <<"/">>
    /\ result.req.RequestLine.HttpVersion = <<"1", ".", "1">>
    /\ result.req.Body = <<>>
    /\ result.req.state = ParserDone

\* C25 as stated: the stream parses to Method "GET", Target "/", Version
\* "1.1", empty Headers, empty Body and state Done.
StandardRequestNoHeaders ==
    StandardRequestParsed =>
        /\ StandardRequestLine
        /\ DOMAIN result.req.Headers = {}

\* C25, amended: the stream parses to Method "GET", Target "/", Version
\* "1.1", empty Body and state Done, and Headers holds the one header of the
\* stream, the value "localhost:42069" under the key "host".
StandardRequestHostHeader ==
    StandardRequestParsed =>
        /\ StandardRequestLine
        /\ DOMAIN result.req.Headers = {<<"h", "o", "s", "t">>}
        /\ result.req.Headers[<<"h", "o", "s", "t">>]
             = <<"l","o","c","a","l","h","o","s","t",":","4","2","0","6","9">>

\* the stream was delivered byte by byte or in larger fragments, the source
\* reported EOF and the call returned the request
StandardRequestReturned ==
    /\ StandardRequestParsed
    /\ srcEnd = EOF
    /\ result.kind = "ok"
    /\ Cardinality(DOMAIN result.req.Headers) = 1

\* the errors of parse on malformed input: request line, header syntax and
\* characters, Content-Length, body overrun
MalformedInputErrors ==
    {ErrEmptyRequest, ErrMalformedRequestLine, ErrInvalidMethod, ErrInvalidTarget,
     ErrUnsupportedVersion, ErrNoColon, ErrKeySpacing, ErrKeySpace, ErrKeyChar,
     ErrContentLength, ErrBodyOverrun}

\* C26: the caller of RequestFromReader can tell the classes of errors
\* apart. The call returns the timeout error exactly when a read timed out
\* and the other transport error exactly when a read failed otherwise, and
\* the two differ; it returns the incomplete-request error only when the
\* source reported EOF before the request was Done, and that error is none
\* of the errors of malformed input, which are what every other error of
\* the call is.
ErrorClasses ==
    /\ ErrTimeout # ErrTransport
    /\ {ErrTimeout, ErrTransport, ErrIncomplete} \cap MalformedInputErrors = {}
    /\ pc = "returned" =>
          /\ srcEnd = ErrTimeout <=> result = Fail(ErrTimeout)
          /\ srcEnd = ErrTransport <=> result = Fail(ErrTransport)
          /\ result = Fail(ErrIncomplete) => (srcEnd = EOF /\ req.state # ParserDone)
          /\ (result.kind = "err" /\ result.err \notin {ErrTimeout, ErrTransport, ErrIncomplete})
                => result.err \in MalformedInputErrors

\* a read timed out after the request line and part of the headers had
\* arrived
TimedOutInHeaders ==
    /\ pc = "returned"
    /\ srcEnd = ErrTimeout
    /\ pos > 0
    /\ req.state = requestStateParsingHeaders
    /\ result = Fail(ErrTimeout)

\* C28: the state of the request only advances, one state per parse call,
\* in the order Initialized, ParsingHeaders, ParsingBody, Done: no step
\* moves it backward or over a state; it enters ParsingBody only in the
\* call that finds the blank line at the head of the buffered bytes and
\* consumes these two bytes; and once Done it stays Done.
ParseStateAdvances ==
    /\ [](req.state \in {ParserInitialized, requestStateParsingHeaders,
                         requestStateParsingBody, ParserDone})
    /\ [][/\ req'.state \in {req.state, req.state + 1}
          /\ req.state = ParserDone => req'.state = ParserDone
          /\ req'.state = requestStateParsingHeaders =>
                req.state \in {ParserInitialized, requestStateParsingHeaders}
          /\ (req'.state = requestStateParsingBody /\ req.state # requestStateParsingBody) =>
                /\ req.state = requestStateParsingHeaders
                /\ readTo >= 2
                /\ SubSeq(buf, 1, 2) = <<"\r", "\n">>
                /\ readTo' = readTo - 2
                /\ req'.Headers = req.Headers]_vars

\* a request with a header and a body is Done: it went through the four
\* states
DoneThroughEveryState ==
    /\ pc = "returned"
    /\ req.state = ParserDone
    /\ req.RequestLine.Method # <<>>
    /\ DOMAIN req.Headers # {}
    /\ Len(req.Body) = 3

\* C29: RequestFromReader stops as soon as the state is Done: with the
\* request Done it is never at a Read of the source, and a call that has
\* ended with the request Done has returned that request, whatever the
\* source reported last.
StopsWhenDone ==
    /\ req.state = ParserDone => pc # "read"
    /\ (pc = "returned" /\ req.state = ParserDone) => result = Ok(req)

\* what holds of the code: the request is Done at a Read only when the call
\* that made it Done was given no bytes (a request without a body whose
\* blank line was the last byte buffered), and the call returns a request
\* that is Done unless that Read ends in a timeout or another error
DoneBeforeRead ==
    /\ (req.state = ParserDone /\ pc = "read") => (readTo = 0 /\ req.Body = <<>>)
    /\ (pc = "returned" /\ req.state = ParserDone) =>
          \/ result = Ok(req)
          \/ srcEnd \in {ErrTimeout, ErrTransport} /\ result = Fail(srcEnd)

\* C30: for every stream, valid or not, whether RequestFromReader accepts
\* or rejects it, and the request it returns, do not depend on how the
\* source splits the stream into reads: the call returns what it returns
\* when the source hands the bytes over contiguously.
FragmentationDeterminism ==
    (pc = "returned" /\ (srcEnd = "none" \/ (srcEnd = EOF /\ pos = Len(stream))))
        => result = RequestFromWhole(stream)

\* what holds of the code: the outcome is that of the contiguous delivery
\* but for streams with more body bytes than declared, which the
\* contiguous delivery rejects as an overrun and a delivery that ends a
\* read at the declared length accepts, without the surplus
DeterminismButForSurplus ==
    (pc = "returned" /\ (srcEnd = "none" \/ (srcEnd = EOF /\ pos = Len(stream))))
        => \/ result = RequestFromWhole(stream)
           \/ /\ RequestFromWhole(stream) = Fail(ErrBodyOverrun)
              /\ result.kind = "ok"
              /\ LenEquals(Len(result.req.Body), Atoi(DeclaredLength))

\* data for a parse call on a request that is Done: nothing, a blank line,
\* body bytes, a header line, a whole request, a malformed request line
DoneData ==
    {<<>>, <<"\r", "\n">>, <<"a", "b", "c">>,
     <<"H", "o", "s", "t", ":", " ", "a", "\r", "\n">>,
     Render(RLGet, <<>>, <<>>),
     <<"g", "e", "t", "\r", "\n">>}

\* C31: a parse call on a request in state Done, with any data, returns
\* zero bytes consumed and no error, and leaves RequestLine, Headers, Body
\* and the state as they are.
DoneIsTerminal ==
    req.state = ParserDone =>
        \A data \in DoneData \cup {Slice(buf, 0, readTo)} :
            Parse(req, data) = [r |-> req, n |-> 0, err |-> ErrNil]

\* the final attempt after EOF was a parse call on a request that was Done
\* already: a request without body, made Done by a call without bytes
FinalParseWhenDone ==
    /\ pc = "returned"
    /\ srcEnd = EOF
    /\ req.state = ParserDone
    /\ req.BodyNil
    /\ DOMAIN req.Headers # {}
    /\ result = Ok(req)

\* what is left to do: the bytes not yet read count twice, the bytes
\* buffered once
Remaining == 2 * (Len(stream) - pos) + readTo

\* C35: RequestFromReader terminates on every finite stream that ends in
\* EOF when every read before EOF delivers at least one byte: every pass
\* of the loop consumes at least one buffered byte, reads at least one new
\* byte, or returns, so the call comes to its end, with a result.
ReaderTerminates ==
    /\ <>(pc = "returned")
    /\ [][\/ pc' = "returned"
          \/ pc = "parse" /\ pc' = "parse" /\ readTo' < readTo /\ pos' = pos
          \/ pc = "parse" /\ pc' = "read" /\ readTo' = readTo /\ pos' = pos
          \/ pc = "read" /\ pc' = "parse" /\ pos' > pos /\ Remaining' < Remaining]_vars
    /\ [](pc = "returned" <=> result # Running)

\* the call has returned a request after EOF ended a stream that took
\* several reads, passes of the loop and a growth of buf
ReturnedAtEOFAfterManyPasses ==
    /\ pc = "returned" /\ srcEnd = EOF
    /\ pos = Len(stream) /\ Len(buf) > BufInit
    /\ result = Ok(req)

\* the bytes parse has consumed so far: those read and no longer buffered
Consumed == pos - readTo

\* C37: the read buffer conserves the bytes: 0 <= readTo <= len(buf); the
\* bytes parse has consumed followed by buf[0:readTo] are the bytes read
\* from the source so far, in order; compaction takes the consumed bytes
\* from the front and keeps the rest, growth keeps every buffered byte; and
\* no Read is attempted with zero free space.
BufferConservation ==
    /\ [](/\ 0 <= readTo /\ readTo <= Len(buf)
          /\ Consumed >= 0
          /\ Slice(buf, 0, readTo) = Slice(stream, Consumed, pos)
          /\ pc = "read" => readTo < Len(buf))
    /\ [][/\ readTo' < readTo
              => /\ pos' = pos /\ Len(buf') = Len(buf)
                 /\ Slice(buf', 0, readTo') = Slice(buf, readTo - readTo', readTo)
          /\ Len(buf') # Len(buf)
              => /\ Len(buf') = 2 * Len(buf) /\ readTo = Len(buf)
                 /\ readTo' = readTo /\ pos' = pos
                 /\ Slice(buf', 0, readTo') = Slice(buf, 0, readTo)
          /\ pos' # pos
              => /\ pos' > pos /\ readTo' - readTo = pos' - pos
                 /\ Len(buf') = Len(buf)
                 /\ Slice(buf', 0, readTo) = Slice(buf, 0, readTo)
                 /\ Slice(buf', readTo, readTo') = Slice(stream, pos, pos')]_vars

\* a Read is about to be made into a buf that has grown and that holds
\* bytes left over by a compaction, after bytes were consumed
ReadIntoGrownCompactedBuf ==
    /\ pc = "read" /\ Len(buf) > BufInit
    /\ readTo > 0 /\ readTo < Len(buf) /\ Consumed > 0
    /\ pos < Len(stream)

-----------------------------------------------------------------------------
(* Properties of the server (specification SpecServer)                     *)

\* the worker of connection c is through its handler and its deferred calls
WorkerThrough(c) ==
    /\ wpc[c] = "finished"
    /\ conn[c] = "closed"
    /\ (wres[c].kind = "ok" /\ hasHandler) => HandlerWritten(c) = Len(HandlerWrites(c))

\* C2: Close does not return before every worker that was in flight when
\* Close was called (dispatched, counter incremented, not yet done) has
\* finished its handler and closed its connection.
CloseBlocksOnInFlight ==
    cpc = "returned" => \A c \in atClose : WorkerThrough(c)

\* Close has returned after waiting for a worker that was in flight at its
\* call and whose handler ran
CloseWaitedForHandler ==
    /\ cpc = "returned"
    /\ \E c \in atClose : hlog[c] # <<>> /\ WorkerThrough(c)

\* C3 as stated: once Close has returned no worker is about to start or
\* running, no handler call is made, and no accepted connection is open.
QuiescentAfterClose ==
    cpc = "returned"
        => /\ lpc # "dispatch"
           /\ \A c \in Conns :
                /\ wpc[c] \in {"none", "finished"}
                /\ conn[c] # "open"
                /\ \A i \in DOMAIN hlog[c] : ~hlog[c][i].closeReturned

\* the handler has run, has made i of its writes, and the worker is where
\* that count puts it
HandlerProgress(c) ==
    /\ Len(hlog[c]) = 1
    /\ hlog[c][1] = [req |-> wres[c].req, writer |-> c, deadline |-> FALSE,
                     closeReturned |-> hlog[c][1].closeReturned]
    /\ hlog[c][1].req.state = ParserDone
    /\ ~deadline[c]
    /\ (conn[c] = "closed") = (wpc[c] \in {"wgDone", "finished"})
    /\ conn[c] = "closed" => wire[c] = HandlerWrites(c)

\* C4: on a connection whose request parsed and with a handler installed, the
\* read deadline is cleared before the handler is called; the handler is
\* called once, with the Done request and a writer bound to this connection;
\* the connection is closed only after the handler returned; and what the
\* client has received is at every moment a prefix of the handler's writes
\* for this request, and all of them once the connection is closed.
SuccessPath ==
    \A c \in Conns :
        (wres[c].kind = "ok" /\ hasHandler)
            => /\ wire[c] = SubSeq(HandlerWrites(c), 1, Len(wire[c]))
               /\ IF wpc[c] \in {"clearDeadline", "handler"}
                  THEN /\ hlog[c] = <<>>
                       /\ conn[c] = "open"
                       /\ wpc[c] = "handler" => ~deadline[c]
                  ELSE HandlerProgress(c)

\* two exchanges have completed through the handler
TwoExchangesServed ==
    /\ hasHandler
    /\ \A c \in {1, 2} :
         /\ wres[c].kind = "ok"
         /\ conn[c] = "closed"
         /\ wire[c] = HandlerWrites(c)

\* the handler of connection c is running
HandlerRunning(c) == wpc[c] \in {"handler", "handlerWrite"}

\* C32: Close cancels nothing. A step of Close changes only the closed
\* flag and the listening socket, on its way to its return: no connection,
\* no worker, nothing written and no parse result changes with it. A
\* handler that is running while the process lives can take its next step
\* whatever Close has done, and the connection of a request that was handed
\* to the handler is closed only after the whole response was written.
CloseCancelsNothing ==
    /\ [][cpc' # cpc =>
            /\ <<conn, wpc, wire, wres, deadline, hlog, wg, lpc, lconn>>'
                   = <<conn, wpc, wire, wres, deadline, hlog, wg, lpc, lconn>>
            /\ closed'
            /\ lnOpen' => lnOpen]_vars
    /\ [](\A c \in Conns :
            (HandlerRunning(c) /\ ~crashed)
                => /\ conn[c] = "open"
                   /\ ENABLED (HandlerCall(c) \/ HandlerWrite(c)))
    /\ [](\A c \in Conns :
            (conn[c] = "closed" /\ wres[c].kind = "ok" /\ hasHandler)
                => wire[c] = HandlerWrites(c))

\* Close has set the flag and closed the listener and waits, while a
\* handler that was in flight when Close was called is in the middle of its
\* response on an open connection
CloseDuringResponse ==
    /\ cpc = "wait"
    /\ ~lnOpen
    /\ \E c \in atClose :
         /\ wpc[c] = "handlerWrite"
         /\ HandlerWritten(c) = 1
         /\ conn[c] = "open"

\* C36: the counter of active handlers equals the number of connections
\* dispatched to a worker that has not finished: it is incremented once per
\* accepted connection, before the worker starts, decremented once per
\* worker at its end on every path (error reply, missing handler, handler
\* returned), and is never negative.
ActiveHandlerCounter ==
    /\ [](wg = Cardinality(InFlight) /\ wg >= 0)
    /\ [][\A c \in Conns :
            /\ (wpc[c] = "none" /\ wpc'[c] # "none")
                  => /\ wg' = wg + 1 /\ wpc'[c] = "start"
                     /\ lpc = "dispatch" /\ lconn = c /\ conn[c] = "open"
            /\ (wpc[c] # "finished" /\ wpc'[c] = "finished")
                  => wg' = wg - 1 /\ wpc[c] = "wgDone"
            /\ wpc[c] = "finished" => wpc'[c] = "finished"]_vars
    /\ [][wg' # wg => Cardinality({c \in Conns : wpc'[c] # wpc[c]}) = 1]_vars
    /\ [](\A c \in Conns : (lpc = "dispatch" /\ lconn = c) => wpc[c] = "none")

\* one worker has finished after its handler's response, one after an
\* error reply is still in flight, and the counter is 1
OneFinishedOneInFlight ==
    /\ wg = 1
    /\ \E c, d \in Conns :
          /\ wpc[c] = "finished" /\ wres[c].kind = "ok"
          /\ wpc[d] \in {"closeConn", "wgDone"} /\ wres[d].kind = "err"

-----------------------------------------------------------------------------
(* Properties of Headers.Parse (specification SpecHeaders)                 *)

\* the last call was given data that starts with a non-empty line
HasLine ==
    /\ hlast.op = "Parse"
    /\ \E i \in 1..(Len(hlast.data) - 2) : SubSeq(hlast.data, i + 1, i + 2) = CRLF
    /\ SubSeq(hlast.data, 1, 2) # CRLF

\* that line, without its CRLF
LastLine ==
    SubSeq(hlast.data, 1,
           FirstOf({i \in 1..(Len(hlast.data) - 2) : SubSeq(hlast.data, i + 1, i + 2) = CRLF}))

\* the line has a colon; its name is what precedes the first colon, its value
\* what follows it without the surrounding whitespace
HasColon(line) == \E i \in DOMAIN line : line[i] = ":"
NameOf(line) == SubSeq(line, 1, FirstOf({i \in DOMAIN line : line[i] = ":"}) - 1)
ValueOf(line) ==
    TrimSpace(SubSeq(line, FirstOf({i \in DOMAIN line : line[i] = ":"}) + 1, Len(line)))

\* the last call accepted a header line
Accepted == HasLine /\ hlast.err = ErrNil

\* what a table holds under a key once value has arrived for it
Combined(before, key, value) ==
    IF key \in DOMAIN before /\ before[key] # <<>>
    THEN before[key] \o <<",", " ">> \o value
    ELSE value

\* C11: when Headers.Parse accepts a line, the value stored under the
\* lowercase name is "<old>, <new>" if the name was in the table with a
\* non-empty value, and the new value if the name was absent or its stored
\* value empty; so occurrences combine in arrival order.
DuplicatesCombine ==
    Accepted =>
        /\ ToLower(NameOf(LastLine)) \in DOMAIN hdrs
        /\ hdrs[ToLower(NameOf(LastLine))]
             = Combined(hlast.before, ToLower(NameOf(LastLine)), ValueOf(LastLine))

\* a second occurrence was appended to the first
SecondOccurrenceAppended ==
    /\ Accepted
    /\ <<"h", "o", "s", "t">> \in DOMAIN hlast.before
    /\ hlast.before[<<"h", "o", "s", "t">>] = <<"a">>
    /\ hdrs[<<"h", "o", "s", "t">>] = <<"a", ",", " ", "b">>

\* key is name with every upper-case letter replaced by its lower-case letter
LowerCaseForm(key, name) ==
    /\ Len(key) = Len(name)
    /\ \A i \in DOMAIN name :
         IF \E j \in DOMAIN UpperLetters : UpperLetters[j] = name[i]
         THEN \E j \in DOMAIN UpperLetters :
                 UpperLetters[j] = name[i] /\ LowerLetters[j] = key[i]
         ELSE key[i] = name[i]

Malformed(line) ==
    \/ ~HasColon(line)
    \/ /\ HasColon(line)
       /\ \E i \in DOMAIN NameOf(line) :
            \/ NameOf(line)[i] \in {" ", "\t", "\r", "\n", "\f"}
            \/ ~KeyCharOK(NameOf(line)[i])

\* C13: on a CRLF-terminated line with no colon, with leading, trailing or
\* interior whitespace in the name, or with a name character outside the
\* permitted set, Headers.Parse returns an error, 0 bytes consumed and
\* done = false, and the table is as it was before the call.
MalformedRejected ==
    (HasLine /\ Malformed(LastLine))
        => /\ hlast.err # ErrNil
           /\ hlast.n = 0
           /\ ~hlast.done
           /\ hdrs = hlast.before

\* a line with a space before the colon was rejected after a header had
\* been stored
SpaceBeforeColonRejected ==
    /\ HasLine
    /\ LastLine = <<"H", "o", "s", "t", " ", ":", " ", "a">>
    /\ hlast.err # ErrNil
    /\ hlast.before # NewHeaders

\* the last call was given data with a CRLF in it
HasCRLF ==
    \E i \in 0..(Len(hlast.data) - 2) : SubSeq(hlast.data, i + 1, i + 2) = CRLF

\* C14: on empty data or data without CRLF Headers.Parse returns
\* (0, false, nil) and changes nothing; with CRLF at offset 0 it returns
\* (2, true, nil) and changes nothing; otherwise it handles the first line
\* only: it returns an error only if that line is malformed, and else
\* (length of the line + 2, false, nil), also when the blank line follows
\* in the data, with the entries of all other names unchanged.
ReturnContract ==
    hlast.op = "Parse" =>
        IF ~HasCRLF
        THEN /\ hlast.n = 0 /\ ~hlast.done /\ hlast.err = ErrNil
             /\ hdrs = hlast.before
             /\ hdata = hlast.data
        ELSE IF SubSeq(hlast.data, 1, 2) = CRLF
        THEN /\ hlast.n = 2 /\ hlast.done /\ hlast.err = ErrNil
             /\ hdrs = hlast.before
             /\ hdata = SubSeq(hlast.data, 3, Len(hlast.data))
        ELSE IF Malformed(LastLine)
        THEN hlast.err # ErrNil
        ELSE /\ hlast.n = Len(LastLine) + 2 /\ ~hlast.done /\ hlast.err = ErrNil
             /\ hdata = SubSeq(hlast.data, Len(LastLine) + 3, Len(hlast.data))
             /\ \A key \in DOMAIN hlast.before :
                  \/ key \in DOMAIN hdrs /\ hdrs[key] = hlast.before[key]
                  \/ LowerCaseForm(key, NameOf(LastLine))

\* a header was parsed from data that also held the blank line, next to an
\* entry of another name
OneLineBeforeBlankLine ==
    /\ Accepted
    /\ hdata = CRLF
    /\ ~hlast.done
    /\ Cardinality(DOMAIN hdrs) = 2

\* the worker of connection c is on an error path: the parse has failed, or
\* it has succeeded and there is no handler
OnErrorPath(c) ==
    \/ wres[c].kind = "err"
    \/ wres[c].kind = "ok" /\ ~hasHandler /\ wpc[c] # "clearDeadline"

\* the error response for a status and a message: status line, the three
\* default headers sized to the message, the message
ErrorResponse(c, status, message) ==
    <<[from |-> "server", for |-> c, op |-> "WriteStatusLine", arg |-> status],
      [from |-> "server", for |-> c, op |-> "WriteHeaders",
       arg |-> [k \in {<<"c","o","n","t","e","n","t","-","l","e","n","g","t","h">>,
                       <<"c","o","n","n","e","c","t","i","o","n">>,
                       <<"c","o","n","t","e","n","t","-","t","y","p","e">>} |->
                  IF k[4] = "n" THEN <<"c","l","o","s","e">>
                  ELSE IF k[9] = "l" THEN DecimalOf(Len(message))
                  ELSE <<"t","e","x","t","/","p","l","a","i","n">>]],
      [from |-> "server", for |-> c, op |-> "WriteBody", arg |-> message]>>

NoEmptyHeaderName == \A k \in DOMAIN hdrs : Len(k) >= 1

\* what holds of the code: every key is in lower case and made of characters
\* of the whitelist, and a call puts the empty name into the table exactly
\* when the line it accepts begins with the colon, which it always accepts
EmptyNameFromLeadingColon ==
    /\ \A k \in DOMAIN hdrs : \A i \in DOMAIN k : KeyCharOK(k[i]) /\ ToLower(k) = k
    /\ IF hlast.op = "none" THEN hdrs = NewHeaders
       ELSE IF HasLine
       THEN /\ LastLine[1] = ":" => hlast.err = ErrNil /\ <<>> \in DOMAIN hdrs
            /\ (<<>> \in DOMAIN hdrs /\ <<>> \notin DOMAIN hlast.before)
                  => LastLine[1] = ":"
       ELSE hdrs = hlast.before

-----------------------------------------------------------------------------
(* Properties of the server under its scheduling (specification            *)
(* SpecServerFair)                                                         *)

\* C16: a worker reads only with the read deadline set; every worker that
\* is reading the request eventually leaves the parsing phase; and a worker
\* whose read ended on the deadline eventually has its connection closed,
\* after the 400 response unless the client is gone.
BoundedReadPhase ==
    /\ [](\A c \in Conns : wpc[c] = "parse" => deadline[c])
    /\ \A c \in Conns : (wpc[c] = "parse") ~> (wpc[c] # "parse")
    /\ \A c \in Conns :
         (wres[c] = Fail(ErrTimeout))
             ~> (/\ conn[c] = "closed"
                 /\ wire[c] \in {<<>>, ErrorResponse(c, 400, ErrTimeout)})

\* the same, as long as the process lives
BoundedReadPhaseWhileAlive ==
    /\ [](\A c \in Conns : wpc[c] = "parse" => deadline[c])
    /\ \A c \in Conns : (wpc[c] = "parse") ~> (wpc[c] # "parse" \/ crashed)
    /\ \A c \in Conns :
         (wres[c] = Fail(ErrTimeout))
             ~> (\/ crashed
                 \/ /\ conn[c] = "closed"
                    /\ wire[c] \in {<<>>, ErrorResponse(c, 400, ErrTimeout)})

\* a step that touches connection c (closes it, writes to it, reads the
\* request from it, sets its deadline) is a step of the worker of c: it moves
\* that worker on, or it is one of the writes of its handler
TouchedByOwnerOnly(c) ==
    (conn[c] \in {"open", "closed"}
     /\ <<conn[c], wire[c], wres[c], deadline[c]>>' # <<conn[c], wire[c], wres[c], deadline[c]>>)
        => /\ wpc[c] # "none"
           /\ \/ wpc'[c] # wpc[c]
              \/ /\ wpc[c] = "handlerWrite"
                 /\ Len(wire'[c]) = Len(wire[c]) + 1
           /\ \A d \in Conns \ {c} : wpc'[d] = wpc[d]

\* the close of connection c is the deferred call of its worker, and there
\* is no way back from it
ClosedOnceByOwner(c) ==
    /\ (conn[c] = "open" /\ conn'[c] # "open")
          => conn'[c] = "closed" /\ wpc[c] = "closeConn" /\ wpc'[c] = "wgDone"
    /\ conn[c] = "closed" => conn'[c] = "closed"
    /\ wpc[c] \in {"wgDone", "finished"} => wpc'[c] \in {"wgDone", "finished"}

\* C17: a connection is closed exactly by the deferred conn.Close() of its
\* worker, once, on every path of the worker: a worker past that call, and
\* only such a worker, has its connection closed; everything written to a
\* connection was written for the request of that connection; and no step
\* of the accept loop, of Close or of another worker touches it.
ConnectionOwnership ==
    /\ [](\A c \in Conns :
            /\ (conn[c] = "closed") = (wpc[c] \in {"wgDone", "finished"})
            /\ \A i \in DOMAIN wire[c] : wire[c][i].for = c)
    /\ [][\A c \in Conns : TouchedByOwnerOnly(c) /\ ClosedOnceByOwner(c)]_vars

\* one worker is through after a parse failure, another after its handler
\* returned
ClosedOnTwoPaths ==
    \E c1, c2 \in Conns :
        /\ wres[c1].kind = "err" /\ wpc[c1] = "finished" /\ conn[c1] = "closed"
        /\ wres[c2].kind = "ok" /\ hasHandler
        /\ wpc[c2] = "finished" /\ conn[c2] = "closed"

\* every worker in flight eventually returns
HandlersReturn ==
    \A c \in Conns : (wpc[c] \notin {"none", "finished"}) ~> (wpc[c] = "finished")

\* C18: if every worker in flight eventually returns, a Close that was
\* called eventually returns; and a Close that waits can return as soon as
\* the counter is zero, wherever the accept loop is.
CloseTerminates ==
    /\ HandlersReturn => ((cpc # "idle") ~> (cpc = "returned"))
    /\ []((cpc = "wait" /\ wg = 0 /\ ~crashed) => ENABLED CloseWait)

\* Close has returned after a worker finished, and the accept loop has not
\* yet seen the closed listener
CloseReturnedBeforeLoopExit ==
    /\ cpc = "returned"
    /\ lpc = "accept"
    /\ \E c \in Conns : wpc[c] = "finished"

\* the accept loop has ended: it has returned, or the process is gone
AcceptLoopEnded == lpc = "exited" \/ crashed

\* C19: the accept loop exits only with the closed flag set, and an accept
\* error seen with the flag unset leaves it accepting; the listener is closed
\* only with the flag set, so that the loop's Accept on the closed listener
\* can only make it exit, never dispatch or retry; and once the listener is
\* closed the loop eventually ends.
AcceptLoopShutdown ==
    /\ [](lpc = "exited" => closed)
    /\ [](~lnOpen => closed)
    /\ []((lpc = "accept" /\ ~lnOpen /\ ~crashed)
             => ENABLED (ListenAcceptError /\ lpc' = "exited"))
    /\ [][(lpc = "accept" /\ ~closed) => lpc' \in {"accept", "dispatch"}]_vars
    /\ [][(lpc = "accept" /\ ~lnOpen) => lpc' \in {"accept", "exited"}]_vars
    /\ (~lnOpen) ~> AcceptLoopEnded

\* the accept loop has exited after Close closed the listener, with a
\* worker still in flight
LoopExitedOnClose ==
    /\ lpc = "exited"
    /\ ~lnOpen
    /\ cpc = "wait"
    /\ wg > 0

\* C27: a failure while parsing the request of one connection ends only the
\* worker of that connection, whatever the clients send: every worker whose
\* request was parsed still runs the handler and completes its response and
\* its return, and the accept loop keeps accepting, so that a connection
\* that waits to be accepted is accepted unless the server is being closed.
ConnectionIsolation ==
    /\ \A c \in Conns :
         (wres[c].kind = "ok" /\ hasHandler)
             ~> (wpc[c] = "finished" /\ wire[c] = HandlerWrites(c))
    /\ \A c \in Conns : (conn[c] = "queued") ~> (conn[c] # "queued" \/ closed)

\* the same, as long as the process lives
ConnectionIsolationWhileAlive ==
    /\ \A c \in Conns :
         (wres[c].kind = "ok" /\ hasHandler)
             ~> (crashed \/ (wpc[c] = "finished" /\ wire[c] = HandlerWrites(c)))
    /\ \A c \in Conns : (conn[c] = "queued") ~> (crashed \/ conn[c] # "queued" \/ closed)
    /\ [][\A c \in Conns :
            (wres[c].kind = "running" /\ wres'[c].kind = "err")
                => /\ lpc' = lpc
                   /\ \A d \in Conns \ {c} : wpc'[d] = wpc[d] /\ wire'[d] = wire[d]]_vars

-----------------------------------------------------------------------------
(* Properties of response.Writer (specification SpecWriter)                *)

\* what follows "HTTP/1.1 " on the status line of a code, up to the CRLF:
\* the code in decimal, a space, and the reason phrase, which is empty for
\* every code but 200, 400, 500 and 408
CodeAndReason(statusCode) ==
    CASE statusCode = 200 ->
            <<"2", "0", "0", " ", "O", "K">>
      [] statusCode = 400 ->
            <<"4", "0", "0", " ", "B", "a", "d", " ", "R", "e", "q", "u", "e", "s", "t">>
      [] statusCode = 500 ->
            <<"5", "0", "0", " ", "I", "n", "t", "e", "r", "n", "a", "l", " ", "S", "e", "r", "v", "e", "r", " ", "E", "r", "r", "o", "r">>
      [] statusCode = 408 ->
            <<"4", "0", "8", " ", "R", "e", "q", "u", "e", "s", "t", " ", "T", "i", "m", "e", "o", "u", "t">>
      [] statusCode = 404 ->
            <<"4", "0", "4", " ">>
      [] statusCode = 204 ->
            <<"2", "0", "4", " ">>
      [] statusCode = 99 ->
            <<"9", "9", " ">>
      [] statusCode = 1000 ->
            <<"1", "0", "0", "0", " ">>
      [] statusCode = 0 ->
            <<"0", " ">>
      [] statusCode = 0 - 1 ->
            <<"-", "1", " ">>

\* C20: a WriteStatusLine that succeeds appends exactly one line to the
\* sink: "HTTP/1.1", a space, the code in decimal, a space, the reason and
\* CRLF, with the reasons OK, Bad Request, Internal Server Error and Request
\* Timeout for 200, 400, 500 and 408 and, for every other code, the empty
\* reason, so that no reason token stands between that space and the CRLF.
\* When the write to the sink is faulty, less than that line is appended.
StatusLineFormat ==
    wlast.op = "WriteStatusLine" =>
        IF wlast.fault = [at |-> 0, kind |-> "ok"]
        THEN /\ dest = wlast.before \o <<"H", "T", "T", "P", "/", "1", ".", "1", " ">>
                          \o CodeAndReason(wlast.arg) \o <<"\r", "\n">>
             /\ wlast.err = ErrNil
        ELSE /\ Len(dest) < Len(wlast.before) + Len(CodeAndReason(wlast.arg)) + 11
             /\ dest = wlast.before \o SubSeq(<<"H", "T", "T", "P", "/", "1", ".", "1", " ">>
                          \o CodeAndReason(wlast.arg) \o <<"\r", "\n">>,
                          1, Len(dest) - Len(wlast.before))

\* the line of an unknown code has been written, and the headers after it
UnknownCodeLineWritten ==
    /\ wlast.op = "WriteHeaders"
    /\ wlast.fault = [at |-> 0, kind |-> "ok"]
    /\ wlast.sent[1].op = "WriteStatusLine"
    /\ wlast.sent[1].arg = 404
    /\ Len(wlast.before) = 15

\* every sink write of the last call was complete
SinkTookAll == wlast.fault = [at |-> 0, kind |-> "ok"]

\* the length of the payloads of the model in lower-case hexadecimal,
\* written out
HexOfLen(p) ==
    CASE Len(p) = 0 -> <<"0">>
      [] Len(p) = 3 -> <<"3">>
      [] Len(p) = 5 -> <<"5">>
      [] Len(p) = 26 -> <<"1", "a">>

\* C21: a WriteChunkedBody(p) whose sink takes every write appends exactly
\* the length of p in lower-case hexadecimal, CRLF, the bytes of p (none
\* when p is empty), CRLF, and returns len(p) without error.
ChunkFraming ==
    (wlast.op = "WriteChunkedBody" /\ SinkTookAll) =>
        /\ dest = wlast.before \o HexOfLen(wlast.arg) \o <<"\r", "\n">>
                    \o wlast.arg \o <<"\r", "\n">>
        /\ wlast.n = Len(wlast.arg)
        /\ wlast.err = ErrNil

\* a chunk of 26 bytes was written: its size line has two digits, one of
\* them a letter
ChunkOfTwentySixWritten ==
    /\ wlast.op = "WriteChunkedBody"
    /\ SinkTookAll
    /\ Len(wlast.arg) = 26
    /\ wlast.n = 26
    /\ Len(dest) = Len(wlast.before) + 32

\* the two trailers of the model, as lines
TrailerSHA ==
    <<"X","-","C","o","n","t","e","n","t","-","S","H","A","2","5","6",":"," ","5","e","\r","\n">>
TrailerLength ==
    <<"X","-","C","o","n","t","e","n","t","-","L","e","n","g","t","h",":"," ","3","\r","\n">>

\* the calls so far, and the one before the last
NumCalls == Len(wlast.sent)
CallBeforeLast == wlast.sent[NumCalls - 1]

\* C22: WriteChunkedBody("abc") followed by WriteChunkedBodyDone appends
\* exactly "3\r\nabc\r\n0\r\n"; WriteChunkedBodyDone appends only "0\r\n",
\* no blank line; a following WriteTrailers appends each trailer exactly
\* once as "name: value\r\n", in some order, then exactly one blank line:
\* the bytes WriteHeaders appends for the same table.
ChunkedSequence ==
    /\ (wlast.op = "WriteChunkedBodyDone" /\ SinkTookAll) =>
          /\ dest = wlast.before \o <<"0", "\r", "\n">>
          /\ (CallBeforeLast.op = "WriteChunkedBody"
                /\ CallBeforeLast.arg = <<"a", "b", "c">>) =>
                dest = CallBeforeLast.before
                         \o <<"3", "\r", "\n", "a", "b", "c", "\r", "\n", "0", "\r", "\n">>
    /\ (wlast.op = "WriteTrailers" /\ SinkTookAll) =>
          /\ CallBeforeLast.op = "WriteChunkedBodyDone"
          /\ IF DOMAIN wlast.arg = {}
             THEN dest = wlast.before \o <<"\r", "\n">>
             ELSE \/ dest = wlast.before \o TrailerSHA \o TrailerLength \o <<"\r", "\n">>
                  \/ dest = wlast.before \o TrailerLength \o TrailerSHA \o <<"\r", "\n">>
          /\ \E order \in Orders(wlast.arg) :
                dest = WriteHeaders(wlast.before, wlast.arg, order,
                                    [at |-> 0, kind |-> "ok"]).dest

\* the chunk "abc", the last chunk and both trailers were written
TrailersAfterLastChunk ==
    /\ wlast.op = "WriteTrailers"
    /\ SinkTookAll
    /\ Cardinality(DOMAIN wlast.arg) = 2
    /\ NumCalls = 5
    /\ wlast.sent[3].op = "WriteChunkedBody"
    /\ wlast.sent[3].arg = <<"a", "b", "c">>
    /\ wlast.sent[4].op = "WriteChunkedBodyDone"
    /\ Len(dest) = Len(wlast.sent[3].before) + 11 + 22 + 21 + 2

\* the faulty sink write of the last call had bytes to write: only the
\* write of WriteBody and the payload write of WriteChunkedBody may be empty
FaultyWriteNonEmpty ==
    /\ wlast.fault.at # 0
    /\ wlast.op = "WriteBody" => wlast.arg # <<>>
    /\ (wlast.op = "WriteChunkedBody" /\ wlast.fault.at = 2) => wlast.arg # <<>>

\* C23: every operation of the Writer returns an error when a sink write of
\* it returns an error, reports zero bytes for a non-empty payload, or is a
\* short write; the short payload write of WriteChunkedBody is reported
\* with an error that is not the sink's own.
WriteFailureDetected ==
    (wlast.op # "none" /\ FaultyWriteNonEmpty) =>
        /\ wlast.err # ErrNil
        /\ (wlast.op = "WriteChunkedBody" /\ wlast.fault = [at |-> 2, kind |-> "short"]) =>
              wlast.err # ErrSink

\* what the operations do detect: an error of the sink in every operation
\* (returned as it is); zero bytes in every write but that of WriteBody; a
\* short write in the payload write of WriteChunkedBody only, as "short
\* write for chunk"
DetectedFailures ==
    (wlast.op # "none" /\ FaultyWriteNonEmpty) =>
        CASE wlast.fault.kind = "err" -> wlast.err = ErrSink
          [] wlast.fault.kind = "zero" ->
                IF wlast.op = "WriteBody" THEN wlast.err = ErrNil /\ wlast.n = 0
                ELSE IF wlast.op = "WriteChunkedBody" /\ wlast.fault.at = 2
                     THEN wlast.err = ErrShortWrite /\ wlast.n = 0
                     ELSE wlast.err = ErrNoBytes
          [] wlast.fault.kind = "short" ->
                IF wlast.op = "WriteChunkedBody" /\ wlast.fault.at = 2
                THEN wlast.err = ErrShortWrite /\ wlast.n = Len(wlast.arg) - 1
                ELSE wlast.err = ErrNil

\* a whole response has been written with WriteStatusLine, WriteHeaders and
\* WriteBody, and its content-length header states the length of the body
ResponseWritten ==
    /\ wlast.op = "WriteBody"
    /\ SinkTookAll
    /\ NumCalls = 3
    /\ DigitsToNat(wlast.sent[2].arg[<<"c","o","n","t","e","n","t","-","l","e","n","g","t","h">>])
         = Len(wlast.arg)

\* C24: the bytes of a response written with WriteStatusLine, WriteHeaders
\* and WriteBody, read back as an HTTP response (status line, header lines
\* up to the blank line, body of the declared content-length), give the
\* status code, the header set and the body that were written, whatever the
\* order in which the header map was iterated.
ResponseRoundTrip ==
    ResponseWritten =>
        /\ doRequest(dest) = [err |-> FALSE, code |-> wlast.sent[1].arg, body |-> wlast.arg]
        /\ ResponseHeaders(dest) = [err |-> FALSE, h |-> wlast.sent[2].arg]

\* a 200 response with the body "hello" was written with the content-type
\* line first, the last key set by GetDefaultHeaders
HelloWrittenContentTypeFirst ==
    /\ ResponseWritten
    /\ wlast.sent[1].arg = 200
    /\ wlast.arg = <<"h", "e", "l", "l", "o">>
    /\ SubSeq(dest, 18, 29) = <<"c","o","n","t","e","n","t","-","t","y","p","e">>

\* the value of a string of lower-case hexadecimal digits, -1 when it is
\* empty or holds another character
RECURSIVE HexValue(_)
HexValue(s) ==
    IF s = <<>> \/ \E i \in DOMAIN s : s[i] \notin Range(HexChars) THEN -1
    ELSE IF Len(s) = 1 THEN (CHOOSE k \in 0..15 : HexChars[k + 1] = s[1])
    ELSE 16 * HexValue(SubSeq(s, 1, Len(s) - 1))
           + (CHOOSE k \in 0..15 : HexChars[k + 1] = s[Len(s)])

\* a decoder of the chunked coding on data: it has seen the last chunk, the
\* one of size zero, after whole chunks with their CRLF
RECURSIVE DecoderSeesEnd(_)
DecoderAfterSize(data, idx, size) ==
    IF size = 0 THEN TRUE
    ELSE IF size < 0 \/ Len(data) < idx + 2 + size + 2 THEN FALSE
    ELSE IF Slice(data, idx + 2 + size, idx + 2 + size + 2) # <<"\r", "\n">> THEN FALSE
    ELSE DecoderSeesEnd(Slice(data, idx + 2 + size + 2, Len(data)))
DecoderAtLine(data, idx) ==
    IF idx = -1 THEN FALSE ELSE DecoderAfterSize(data, idx, HexValue(Slice(data, 0, idx)))
DecoderSeesEnd(data) == DecoderAtLine(data, IndexCRLF(data))

\* the bytes of the body on the sink: those after the header block, once
\* the first call for the body was made
BodyOnSink == Slice(dest, Len(wlast.sent[3].before), Len(dest))

\* C33: only WriteChunkedBodyDone terminates a chunked body: whatever the
\* payloads of the WriteChunkedBody calls, the empty one included, a decoder
\* of the chunked coding sees the end of the body on the sink only after
\* WriteChunkedBodyDone was called.
OnlyDoneTerminates ==
    (NumCalls >= 3 /\ wlast.sent[3].op \in {"WriteChunkedBody", "WriteChunkedBodyDone"}
       /\ DecoderSeesEnd(BodyOnSink))
        => \E i \in DOMAIN wlast.sent : wlast.sent[i].op = "WriteChunkedBodyDone"

\* what holds of the code: without a call of WriteChunkedBodyDone the
\* decoder sees the end exactly when a WriteChunkedBody with an empty
\* payload has put its whole size line on the sink, and after a complete
\* WriteChunkedBodyDone it always does
EmptyChunkTerminates ==
    (NumCalls >= 3 /\ wlast.sent[3].op \in {"WriteChunkedBody", "WriteChunkedBodyDone"}) =>
        /\ (\A i \in DOMAIN wlast.sent : wlast.sent[i].op # "WriteChunkedBodyDone") =>
              (DecoderSeesEnd(BodyOnSink)
                 <=> \E i \in DOMAIN wlast.sent :
                        /\ wlast.sent[i].op = "WriteChunkedBody"
                        /\ wlast.sent[i].arg = <<>>
                        /\ Len(dest) >= Len(wlast.sent[i].before) + 3
                        /\ Slice(dest, Len(wlast.sent[i].before),
                                 Len(wlast.sent[i].before) + 3) = <<"0", "\r", "\n">>)
        /\ (wlast.op = "WriteChunkedBodyDone" /\ SinkTookAll) => DecoderSeesEnd(BodyOnSink)

====
